---- MODULE Spec2Model ----
(***************************************************************************)
(* CALab: the simulation engine (core/simulator.py) with its worker        *)
(* threads, and the automaton variants (core/automaton_base.py, plugins/). *)
(*                                                                         *)
(* Spec      the SimulationEngine: one controlling thread that calls       *)
(*           start/stop/pause/resume/step_once, and the worker threads     *)
(*           start() spawns, interleaved at every access to shared state.  *)
(* RestartSpec  Spec with one more start() allowed to spawn a worker.       *)
(* FairSpec  the engine as constructed by default, every live worker       *)
(*           thread scheduled fairly.                                      *)
(* CutSpec   the engine with max_generations set and no outside step_once. *)
(* StopFairSpec  FairSpec with every step_once() running to its end.       *)
(* BindSpec  the engine with set_automaton among the control calls.        *)
(* SpecCA    the automaton variants on a small torus.                      *)
(* SpecElem  ElementaryCA on a grid wide enough for its patterns.          *)
(* SpecLife  GameOfLife and WireWorld stepping the grids a caller imports. *)
(* SpecParse RuleParser.parse_totalistic_rule on short rule strings.       *)
(* SpecAPI   the calls of the base class on every variant.                 *)
(* SpecNbhd  get_neighborhood on grids with one marked cell.               *)
(* SpecPlugin  create_automaton of the plugins of the registry.            *)
(* SpecRules RuleEngine saving its rules to a file and loading them back.  *)
(***************************************************************************)
EXTENDS Integers, FiniteSets, Sequences, TLC

\* ------------------------------------------------------------------ bounds
MaxWorkers == 1      \* worker threads start() may spawn in one behaviour
MaxGen == 2          \* steps the bound automaton may take in one behaviour
MaxErr == 1          \* step() calls that may raise in one behaviour
MaxCut == 1          \* largest max_generations configured
MaxBind == 1         \* set_automaton calls in one behaviour

Main == 0
\* thread ids: RestartSpec allows one start() more than Spec
Workers == 1..(MaxWorkers + 1)
Threads == {Main} \cup Workers
NoThread == -1
NoGen == -1

VARIABLES
    \* SimulationEngine fields
    running, paused, stop_event, pause_event, lock, thread, total_steps,
    max_generations, on_error_callback,
    \* the bound automaton's generation counter
    generation,
    \* per thread: the generation step() read when it began
    stepLocal,
    \* position of every thread: Main in a control call, a worker in _run_loop
    pc,
    \* history (observation only)
    startCap,        \* start() calls that may spawn in this behaviour
    raises,          \* step() calls that raised
    errCalls,        \* invocations of on_error_callback
    propagated,      \* per worker: an error left _run_loop
    nComplete,       \* per worker: invocations of on_complete_callback
    runAtComplete,   \* per worker: value of running when on_complete ran
    stepsSince,      \* step() calls completed since the last start()
    genAtStart,      \* generation when the last start() spawned its worker
    gateGen,         \* per worker: generation at which it blocked on the gate,
                     \* kept until its next step() is over
    disturbed,       \* per worker: another thread has stepped since it blocked
    stopBlocked,     \* per worker: stop() found it blocked on the gate
    shutSteps,       \* per worker: step() calls it began since the gate was shut
    pausedRunning,   \* pause() found the engine running, and neither
                     \* resume(), stop() nor a spawning start() came since
    \* the binding of the engine
    automaton,       \* SimulationEngine.automaton: the automaton bound, by number
    target,          \* per thread: the automaton its step() is running on, or 0
    staleSteps,      \* step() calls completed on an automaton no longer bound
    bindWaited,      \* a step() was in progress when set_automaton was called
    \* the automaton
    variant,         \* which CellularAutomaton subclass it is
    rule_number,     \* ElementaryCA.rule_number (0 and unused otherwise)
    grid,            \* grid[y][x]
    current_row,     \* ElementaryCA.current_row (0 and unused otherwise)
    width, height,   \* CellularAutomaton.width, .height
    nsets,           \* set_cell calls made
    fresh,           \* a second instance of the same variant and parameters
    history,         \* CellularAutomaton.history: the snapshots, oldest first
    statistics,      \* CellularAutomaton.statistics: generation -> stats
    \* the caller's side of the automaton interface
    ext,             \* an array the caller holds: [shape, cells], or NoArray
    aliased,         \* the automaton's grid and ext are one array object
    raised,          \* the last call on the automaton raised an error
    last,            \* the last call made: "import_grid", "round_trip" (an
                     \* import of the own export), "reset", or "other"
    nsteps,          \* step() calls made on the automaton directly
    sinceInit,       \* step() calls made since the last initialize_pattern
    pristine,        \* the grid holds one seed written by initialize_pattern
                     \* into an all-zero grid, and what step() added since
    query,           \* the last get_neighborhood call: [x, y, type], or NoQuery
    neighborhood,    \* what it returned (left alone when it raised)
    created,         \* the pattern name handed to the last create_automaton
    \* RuleParser
    rule_string,     \* the string handed to the parser, as characters
    rules,           \* what the last parse returned: [returned, num_states, table]
    \* RuleEngine
    rule_engine,     \* a RuleEngine: [rule_type, rules, totalistic_rules]
    rule_file,       \* the JSON file it saved: [written, data]
    loaded           \* a second RuleEngine after loading the file: [done, engine]

flagVars == <<running, paused, stop_event, pause_event>>
cfgVars == <<max_generations, on_error_callback, startCap>>
errVars == <<raises, errCalls, propagated>>
doneVars == <<nComplete, runAtComplete>>
countVars == <<stepsSince, genAtStart>>
gateVars == <<gateGen, disturbed>>
pauseVars == <<shutSteps, pausedRunning>>
bindVars == <<automaton, target, staleSteps, bindWaited>>
engVars == <<flagVars, lock, thread, total_steps, cfgVars, stepLocal, pc,
             errVars, doneVars, countVars, gateVars, stopBlocked, pauseVars,
             bindVars>>
dimVars == <<width, height>>
storeVars == <<history, statistics>>
callerVars == <<ext, aliased, raised, last>>
obsVars == <<nsteps, sinceInit, pristine>>
parseVars == <<rule_string, rules, rule_engine, rule_file, loaded>>
queryVars == <<query, neighborhood, created>>
caVars == <<variant, rule_number, grid, current_row, nsets, fresh, dimVars,
            storeVars, callerVars, obsVars, parseVars, queryVars>>

vars == <<engVars, generation, caVars>>

\* ---------------------------------------------------------------- helpers
InLoop(p) == p \in {"loop", "wait", "blocked", "chk", "acquire", "in_step", "incr"}
Alive(p) == p \notin {"unborn", "dead"}
InFlight == Cardinality({t \in Threads : pc[t] \in {"acquire", "in_step"}})

\* threading.Event.set(): every thread blocked in wait() is released
EventSet(p) == [t \in Threads |-> IF p[t] = "blocked" THEN "chk" ELSE p[t]]

\* a lock that never excludes anybody
LockAlwaysFree(l) == TRUE

\* threading.Lock: acquirable iff nobody holds it
LockFree(l) == l = NoThread

\* CellularAutomaton.step() of a whole-grid variant: generation += 1
StepGeneration(g) == g + 1

\* ============================================================== automata
\* ------------------------------------------------------------------ bounds
GridW == 3           \* grid width
GridH == 3           \* grid height
MaxSets == 1         \* set_cell calls in one behaviour
MaxVal == 2          \* largest state a set_cell call asks for
MaxSteps == 3        \* step() calls made on an automaton directly
ElemW == 7           \* width of the ElementaryCA grid of SpecElem
ElemH == 3           \* height of the ElementaryCA grid of SpecElem
LifeW == 5           \* width of the grids of SpecLife
LifeH == 6           \* height of the grids of SpecLife
MaxRuleLen == 6      \* characters in a rule string handed to the parser
ApiW == 3            \* width of the grids of SpecAPI
ApiH == 2            \* height of the grids of SpecAPI
ApiSteps == 1        \* step() calls in one behaviour of SpecAPI
NbW == 3             \* width of the grids of SpecNbhd
NbH == 4             \* height of the grids of SpecNbhd
PlugW == 12          \* width of the grids of SpecPlugin
PlugH == 15          \* height of the grids of SpecPlugin
MaxResult == 1       \* largest result of a rule of SpecRules

Rows == 0..(height - 1)
Cols == 0..(width - 1)

Variants == {"elementary", "game_of_life", "langton_loop", "von_neumann",
             "von_neumann_full"}
TableVariants == {"langton_loop", "von_neumann", "von_neumann_full"}
\* the rules the plugin registry ships for ElementaryCA
RuleNumbers == {30, 90, 110}
\* pattern names handed to initialize_pattern
PatternNames == {"single_cell", "alternating", "three_cells", "glider",
                 "basic_loop", "simple_reproducer", "transmission_demo",
                 "unknown"}

\* metadata.num_states
NumStates(v) ==
    CASE v = "elementary" -> 2
      [] v = "game_of_life" -> 2
      [] v = "wireworld" -> 4
      [] v = "langton_loop" -> 8
      [] v = "von_neumann" -> 29
      [] v = "von_neumann_full" -> 29

Min(a, b) == IF a < b THEN a ELSE b
Max(a, b) == IF a > b THEN a ELSE b

\* np.zeros((height, width))
ZeroGrid == [y \in Rows |-> [x \in Cols |-> 0]]

\* grid[y % h, x % w]
Cell(g, x, y) == g[y % height][x % width]

\* writes of a pattern's cells at origin (oy, ox), clipped to the grid
Stamp(g, pat, oy, ox) ==
    [y \in Rows |-> [x \in Cols |->
        IF (y - oy) \in 0..(Len(pat) - 1) /\ (x - ox) \in 0..(Len(pat[1]) - 1)
        THEN pat[y - oy + 1][x - ox + 1]
        ELSE g[y][x]]]

\* ---------------------------------------------------------- ElementaryCA
\* a table indexed by (center, left, right)
rule_table_center_first(rule, left, center, right) ==
    (rule \div (2 ^ (4 * center + 2 * left + right))) % 2

\* _generate_rule_table: entry (i>>2, (i>>1)&1, i&1) is bit i of the rule
rule_table(rule, left, center, right) ==
    (rule \div (2 ^ (4 * left + 2 * center + right))) % 2

\* a step that reads 0 beyond the left and right edge
ElementaryStepNoWrap(rule, g, row) ==
    IF row >= height - 1
    THEN g
    ELSE [g EXCEPT ![row + 1] =
            [x \in Cols |-> rule_table(rule,
                                       IF x = 0 THEN 0 ELSE g[row][x - 1],
                                       g[row][x],
                                       IF x = width - 1 THEN 0 ELSE g[row][x + 1])]]

ElementaryStep(rule, g, row) ==
    IF row >= height - 1
    THEN g
    ELSE [g EXCEPT ![row + 1] =
            [x \in Cols |-> rule_table(rule, g[row][(x - 1) % width],
                                       g[row][x], g[row][(x + 1) % width])]]

\* ----------------------------------------------------------- GameOfLife
\* sum of the eight Moore neighbours on the torus
MooreCount(g, x, y) ==
      Cell(g, x - 1, y - 1) + Cell(g, x, y - 1) + Cell(g, x + 1, y - 1)
    + Cell(g, x - 1, y)                         + Cell(g, x + 1, y)
    + Cell(g, x - 1, y + 1) + Cell(g, x, y + 1) + Cell(g, x + 1, y + 1)

\* a rule that also gives birth on six neighbours
HighLifeCell(current, neighbors) ==
    IF current = 1
    THEN IF neighbors < 2 \/ neighbors > 3 THEN 0 ELSE current
    ELSE IF neighbors = 3 \/ neighbors = 6 THEN 1 ELSE current

\* the body of the loop of step(): the cell's entry in new_grid
LifeCell(current, neighbors) ==
    IF current = 1
    THEN IF neighbors < 2 \/ neighbors > 3 THEN 0 ELSE current
    ELSE IF neighbors = 3 THEN 1 ELSE current

GameOfLifeStep(g) ==
    [y \in Rows |-> [x \in Cols |-> LifeCell(g[y][x], MooreCount(g, x, y))]]

\* ------------------------------------------------------------ WireWorld
\* cell states
EmptyCell == 0
WireCell == 1
HeadCell == 2
TailCell == 3

\* the eight offsets (dx, dy) of the Moore neighbourhood
MooreOffsets == ({-1, 0, 1} \X {-1, 0, 1}) \ {<<0, 0>>}

\* electron heads among the eight neighbours on the torus
HeadCount(g, x, y) ==
    Cardinality({d \in MooreOffsets : Cell(g, x + d[1], y + d[2]) = HeadCell})

\* a wire that also fires on three heads
WireWorldCellUpToThree(current, heads) ==
    CASE current = HeadCell -> TailCell
      [] current = TailCell -> WireCell
      [] current = WireCell -> IF heads \in {1, 2, 3} THEN HeadCell ELSE current
      [] OTHER -> current

\* the body of the loop of step(); any other value is copied
WireWorldCell(current, heads) ==
    CASE current = HeadCell -> TailCell
      [] current = TailCell -> WireCell
      [] current = WireCell -> IF heads \in {1, 2} THEN HeadCell ELSE current
      [] OTHER -> current

WireWorldStep(g) ==
    [y \in Rows |-> [x \in Cols |-> WireWorldCell(g[y][x], HeadCount(g, x, y))]]

\* ------------------------------------------------------ table variants
\* (center, north, east, south, west) of cell (x, y) on the torus
Pattern(g, x, y) ==
    <<Cell(g, x, y), Cell(g, x, y - 1), Cell(g, x + 1, y), Cell(g, x, y + 1),
      Cell(g, x - 1, y)>>

\* lookup result for a pattern the table does not hold
NoRule == -1

\* LangtonLoop._load_langton_rules
LangtonRules ==
    <<0,1,1,1,0>> :> 1 @@
    <<0,1,1,0,1>> :> 1 @@
    <<0,1,0,1,1>> :> 1 @@
    <<0,0,1,1,1>> :> 1 @@
    <<0,2,1,0,0>> :> 1 @@
    <<0,0,2,1,0>> :> 1 @@
    <<0,0,0,2,1>> :> 1 @@
    <<0,1,0,0,2>> :> 1 @@
    <<1,1,1,0,0>> :> 1 @@
    <<1,1,0,1,0>> :> 1 @@
    <<1,1,0,0,1>> :> 1 @@
    <<1,0,1,1,0>> :> 1 @@
    <<1,0,1,0,1>> :> 1 @@
    <<1,0,0,1,1>> :> 1 @@
    <<2,2,0,0,0>> :> 2 @@
    <<2,0,2,0,0>> :> 2 @@
    <<2,0,0,2,0>> :> 2 @@
    <<2,0,0,0,2>> :> 2 @@
    <<2,1,1,0,0>> :> 2 @@
    <<2,1,0,1,0>> :> 2 @@
    <<2,1,0,0,1>> :> 2 @@
    <<2,0,1,1,0>> :> 2 @@
    <<2,0,1,0,1>> :> 2 @@
    <<2,0,0,1,1>> :> 2 @@
    <<2,1,2,0,0>> :> 2 @@
    <<2,2,1,0,0>> :> 2 @@
    <<3,1,0,0,0>> :> 1 @@
    <<3,0,1,0,0>> :> 1 @@
    <<3,0,0,1,0>> :> 1 @@
    <<3,0,0,0,1>> :> 1 @@
    <<0,3,1,0,0>> :> 3 @@
    <<0,0,3,1,0>> :> 3 @@
    <<0,0,0,3,1>> :> 3 @@
    <<0,1,0,0,3>> :> 3 @@
    <<4,0,0,0,0>> :> 0 @@
    <<4,1,0,0,0>> :> 4 @@
    <<4,0,1,0,0>> :> 4 @@
    <<4,0,0,1,0>> :> 4 @@
    <<4,0,0,0,1>> :> 4 @@
    <<0,4,0,0,0>> :> 4 @@
    <<0,0,4,0,0>> :> 4 @@
    <<0,0,0,4,0>> :> 4 @@
    <<0,0,0,0,4>> :> 4 @@
    <<5,0,0,0,0>> :> 0 @@
    <<5,1,0,0,0>> :> 5 @@
    <<5,0,1,0,0>> :> 5 @@
    <<0,5,0,0,0>> :> 5 @@
    <<0,0,5,0,0>> :> 5 @@
    <<6,0,0,0,0>> :> 0 @@
    <<6,1,0,0,0>> :> 6 @@
    <<0,6,0,0,0>> :> 6 @@
    <<0,0,6,0,0>> :> 6 @@
    <<7,0,0,0,0>> :> 0 @@
    <<7,1,0,0,0>> :> 7 @@
    <<0,7,0,0,0>> :> 7 @@
    <<1,2,0,0,0>> :> 1 @@
    <<1,0,2,0,0>> :> 1 @@
    <<1,0,0,2,0>> :> 1 @@
    <<1,0,0,0,2>> :> 1 @@
    <<2,3,0,0,0>> :> 2 @@
    <<2,0,3,0,0>> :> 2 @@
    <<3,2,0,0,0>> :> 3 @@
    <<3,0,2,0,0>> :> 3

LangtonRule(p) == IF p \in DOMAIN LangtonRules THEN LangtonRules[p] ELSE NoRule

\* exactly one of the four neighbours is in S, the other three are 0
OnlyOne(n, e, s, w, S) ==
    \/ n \in S /\ e = 0 /\ s = 0 /\ w = 0
    \/ n = 0 /\ e \in S /\ s = 0 /\ w = 0
    \/ n = 0 /\ e = 0 /\ s \in S /\ w = 0
    \/ n = 0 /\ e = 0 /\ s = 0 /\ w \in S

\* VonNeumannConstructor._init_rules; later assignments overwrite earlier
VonNeumannRule(p) ==
    LET c == p[1]  n == p[2]  e == p[3]  s == p[4]  w == p[5]
    IN  IF c = 6 /\ n \in 1..4 /\ e \in 1..4 /\ s = 0 /\ w = 0 THEN 4
        ELSE IF c = 0 /\ OnlyOne(n, e, s, w, {5}) THEN 1
        ELSE IF c = 1 /\ {n, e, s, w} \subseteq 0..4 /\ n + e + s + w > 0
             THEN Min(n + e + s + w, 4)
        ELSE IF p = <<0, 0, 0, 0, 0>> THEN 0
        ELSE NoRule

\* VonNeumannFull._init_full_rules; later assignments overwrite earlier,
\* so the clauses are tried from the last one written to the first
VonNeumannFullRule(p) ==
    LET c == p[1]  n == p[2]  e == p[3]  s == p[4]  w == p[5]
        rest == <<e, s, w>>
        zero == <<0, 0, 0>>
    IN  \* reproduction states
        IF c = 25 /\ n = 1 /\ rest = zero THEN 26
        ELSE IF c = 26 /\ n = 2 /\ rest = zero THEN 27
        ELSE IF c = 27 /\ n = 3 /\ rest = zero THEN 28
        ELSE IF c = 28 /\ n = 4 /\ rest = zero THEN 25
        \* special states
        ELSE IF c \in 20..24 /\ n \in 1..4 /\ rest = zero THEN 15 + (c - 20)
        ELSE IF c \in 15..19 /\ n \in 0..28 /\ rest = zero THEN c
        \* sensitized states
        ELSE IF c \in 6..8 /\ n \in 1..4 /\ rest = zero THEN c - 4
        ELSE IF c = 5 /\ OnlyOne(n, e, s, w, 1..4) THEN 1
        \* destruction
        ELSE IF c \in 1..28 /\ OnlyOne(n, e, s, w, {14}) THEN 0
        \* construction
        ELSE IF c = 13 /\ OnlyOne(n, e, s, w, 1..4) THEN 13
        ELSE IF c = 0 /\ n = 13 /\ rest = zero THEN 1
        ELSE IF c = 0 /\ p = <<0, 0, 13, 0, 0>> THEN 2
        ELSE IF c = 0 /\ p = <<0, 0, 0, 13, 0>> THEN 3
        ELSE IF c = 0 /\ p = <<0, 0, 0, 0, 13>> THEN 4
        \* confluent states
        ELSE IF p = <<10, 1, 2, 0, 0>> THEN 2
        ELSE IF p = <<11, 0, 2, 3, 0>> THEN 3
        ELSE IF p = <<12, 0, 0, 3, 4>> THEN 4
        ELSE IF c = 9 /\ (\E ns \in {1, 3}, ew \in {2, 4} :
                            \/ <<n, e, s, w>> = <<ns, ew, 0, 0>>
                            \/ <<n, e, s, w>> = <<0, ew, ns, 0>>
                            \/ <<n, e, s, w>> = <<ns, 0, 0, ew>>
                            \/ <<n, e, s, w>> = <<0, 0, ns, ew>>) THEN 1
        \* transmission states
        ELSE IF p = <<1, 0, 0, 1, 0>> THEN 1
        ELSE IF p = <<2, 0, 0, 0, 2>> THEN 2
        ELSE IF p = <<3, 3, 0, 0, 0>> THEN 3
        ELSE IF p = <<4, 0, 4, 0, 0>> THEN 4
        ELSE IF c \in {0, 4} /\ e = 4 /\ w = 0 /\ n \in 0..28 /\ s \in 0..28 THEN 4
        ELSE IF c \in {0, 3} /\ n = 0 /\ s = 3 /\ e \in 0..28 /\ w \in 0..28 THEN 3
        ELSE IF c \in {0, 2} /\ e = 0 /\ w = 2 /\ n \in 0..28 /\ s \in 0..28 THEN 2
        ELSE IF c \in {0, 1} /\ n = 1 /\ s = 0 /\ e \in 0..28 /\ w \in 0..28 THEN 1
        \* ground
        ELSE IF p = <<0, 0, 0, 0, 0>> THEN 0
        ELSE NoRule

\* the variant's table lookup
TableRule(v, p) ==
    CASE v = "langton_loop" -> LangtonRule(p)
      [] v = "von_neumann" -> VonNeumannRule(p)
      [] v = "von_neumann_full" -> VonNeumannFullRule(p)

\* LangtonLoop.step: a pattern without a rule leaves the cell alone
LangtonStep(g) ==
    [y \in Rows |-> [x \in Cols |->
        LET new_state == LangtonRule(Pattern(g, x, y))
        IN  IF new_state # NoRule THEN new_state ELSE g[y][x]]]

\* VonNeumannConstructor.step: a pattern without a rule decays a center > 5
VonNeumannStep(g) ==
    [y \in Rows |-> [x \in Cols |->
        LET center == g[y][x]
            new_state == VonNeumannRule(Pattern(g, x, y))
        IN  IF new_state # NoRule THEN new_state
            ELSE IF center > 5 THEN Max(0, center - 1)
            ELSE center]]

\* VonNeumannFull.step: a pattern without a rule decays a center in 1..14
VonNeumannFullStep(g) ==
    [y \in Rows |-> [x \in Cols |->
        LET center == g[y][x]
            new_state == VonNeumannFullRule(Pattern(g, x, y))
        IN  IF new_state # NoRule THEN new_state
            ELSE IF center > 0 /\ center <= 14 THEN Max(0, center - 1)
            ELSE center]]

\* ------------------------------------------------------------- step()
\* the grid after step()
StepGrid(v, rule, g, row) ==
    CASE v = "elementary" -> ElementaryStep(rule, g, row)
      [] v = "game_of_life" -> GameOfLifeStep(g)
      [] v = "wireworld" -> WireWorldStep(g)
      [] v = "langton_loop" -> LangtonStep(g)
      [] v = "von_neumann" -> VonNeumannStep(g)
      [] v = "von_neumann_full" -> VonNeumannFullStep(g)

\* step() raises KeyError: a cell of the row ElementaryCA reads is no key
\* part of the rule table; nothing was written yet
StepRaises(v, g, row) ==
    /\ v = "elementary"
    /\ row < height - 1
    /\ \E x \in Cols : g[row][x] \notin {0, 1}

\* ElementaryCA.current_row after step()
StepRow(v, row) ==
    IF v = "elementary" /\ row < height - 1 THEN row + 1 ELSE row

\* generation after step(): ElementaryCA returns early on a filled grid
StepGen(v, row, gen) ==
    IF v = "elementary" /\ row >= height - 1 THEN gen ELSE gen + 1

\* ------------------------------------------------------------ patterns
Glider ==
    << <<0,1,0>>,
    <<0,0,1>>,
    <<1,1,1>> >>

GliderGun ==
    << <<0,0,0,0,0,0,0,0,0,0,0,0,0,0,0,0,0,0,0,0,0,0,0,0,1,0,0,0,0,0,0,0,0,0,0,0>>,
    <<0,0,0,0,0,0,0,0,0,0,0,0,0,0,0,0,0,0,0,0,0,0,1,0,1,0,0,0,0,0,0,0,0,0,0,0>>,
    <<0,0,0,0,0,0,0,0,0,0,0,0,1,1,0,0,0,0,0,0,1,1,0,0,0,0,0,0,0,0,0,0,0,0,1,1>>,
    <<0,0,0,0,0,0,0,0,0,0,0,1,0,0,0,1,0,0,0,0,1,1,0,0,0,0,0,0,0,0,0,0,0,0,1,1>>,
    <<1,1,0,0,0,0,0,0,0,0,1,0,0,0,0,0,1,0,0,0,1,1,0,0,0,0,0,0,0,0,0,0,0,0,0,0>>,
    <<1,1,0,0,0,0,0,0,0,0,1,0,0,0,1,0,1,1,0,0,0,0,1,0,1,0,0,0,0,0,0,0,0,0,0,0>>,
    <<0,0,0,0,0,0,0,0,0,0,1,0,0,0,0,0,1,0,0,0,0,0,0,0,1,0,0,0,0,0,0,0,0,0,0,0>>,
    <<0,0,0,0,0,0,0,0,0,0,0,1,0,0,0,1,0,0,0,0,0,0,0,0,0,0,0,0,0,0,0,0,0,0,0,0>>,
    <<0,0,0,0,0,0,0,0,0,0,0,0,1,1,0,0,0,0,0,0,0,0,0,0,0,0,0,0,0,0,0,0,0,0,0,0>> >>

BasicLoop ==
    << <<1,1,1,1,1,1,1,1,1>>,
    <<1,0,0,0,0,0,0,0,1>>,
    <<1,0,2,2,2,2,2,0,1>>,
    <<1,0,2,0,0,0,2,0,1>>,
    <<1,0,2,0,0,0,2,0,1>>,
    <<1,0,2,2,2,2,2,0,1>>,
    <<1,0,0,0,0,0,0,0,1>>,
    <<1,1,1,1,3,1,1,1,1>>,
    <<0,0,0,0,4,0,0,0,0>> >>

SimpleReproducer ==
    << <<0,5,0>>,
       <<1,6,1>>,
       <<0,5,0>> >>

\* HighLife._create_replicator
Replicator ==
    << <<0,0,1,1,1>>,
       <<0,1,0,0,1>>,
       <<1,0,0,0,0>>,
       <<1,0,0,1,0>>,
       <<1,1,1,0,0>> >>

\* Seeds._create_single_cell
SeedsSingleCell(g) ==
    LET cx == width \div 2
        cy == height \div 2
    IN  IF 0 <= cy /\ cy < height /\ 0 <= cx /\ cx < width
        THEN [g EXCEPT ![cy][cx] = 1]
        ELSE g

\* ElementaryCA._create_single_cell
SingleCell(g) == [g EXCEPT ![0][width \div 2] = 1]

\* ElementaryCA._create_alternating
Alternating(g) ==
    [g EXCEPT ![0] = [x \in Cols |-> IF x % 2 = 0 THEN 1 ELSE g[0][x]]]

\* ElementaryCA._create_three_cells
ThreeCells(g) ==
    LET cx == width \div 2
    IN  [g EXCEPT ![0] = [x \in Cols |->
            IF x \in {cx - 1, cx, cx + 1} THEN 1 ELSE g[0][x]]]

\* VonNeumannFull._create_transmission_demo: the writes in source order
TransmissionDemo(g) ==
    LET cx == width \div 4
        cy == height \div 2
        line(y, x) == IF y = cy /\ (x - cx) \in 0..29 THEN 2 ELSE g[y][x]
        column(y, x) == IF x = cx + 15 /\ (y - cy) \in 0..19 THEN 1
                        ELSE line(y, x)
        confluent(y, x) == IF y = cy + 15 /\ x = cx + 15 THEN 9
                           ELSE column(y, x)
    IN  [y \in Rows |-> [x \in Cols |->
            IF y = cy /\ x = cx THEN 2 ELSE confluent(y, x)]]

\* initialize_pattern: each variant's dispatch, with its fallback
PatternGrid(v, name, g) ==
    CASE v = "elementary" ->
            IF name = "alternating" THEN Alternating(g)
            ELSE IF name = "three_cells" THEN ThreeCells(g)
            ELSE SingleCell(g)
      [] v = "game_of_life" ->
            IF name = "glider"
            THEN Stamp(g, Glider, height \div 4, width \div 4)
            ELSE Stamp(g, GliderGun, 10, 10)
      [] v = "langton_loop" ->
            Stamp(g, BasicLoop, height \div 4, width \div 4)
      [] v = "von_neumann" ->
            Stamp(g, SimpleReproducer, height \div 2 - 1, width \div 2 - 1)
      [] v = "von_neumann_full" ->
            TransmissionDemo(g)
      [] v = "highlife" ->
            IF name = "glider"
            THEN Stamp(g, Glider, height \div 4, width \div 4)
            ELSE Stamp(g, Replicator, height \div 2, width \div 2)
      [] v = "seeds" ->
            SeedsSingleCell(g)

\* ------------------------------------------------------------------- Init
\* SimulationEngine.__init__ with an automaton bound; max_generations and
\* on_error_callback are configured before the first start().
EngineFields ==
    /\ running = FALSE
    /\ paused = FALSE
    /\ stop_event = FALSE
    /\ pause_event = TRUE
    /\ lock = NoThread
    /\ thread = 0
    /\ total_steps = 0
    /\ max_generations \in 0..MaxCut
    /\ on_error_callback \in BOOLEAN
    /\ generation = 0
    /\ stepLocal = [t \in Threads |-> NoGen]
    /\ pc = [t \in Threads |-> IF t = Main THEN "idle" ELSE "unborn"]
    /\ raises = 0
    /\ errCalls = 0
    /\ propagated = [w \in Workers |-> FALSE]
    /\ nComplete = [w \in Workers |-> 0]
    /\ runAtComplete = [w \in Workers |-> FALSE]
    /\ stepsSince = 0
    /\ genAtStart = 0
    /\ gateGen = [w \in Workers |-> NoGen]
    /\ disturbed = [w \in Workers |-> FALSE]
    /\ stopBlocked = [w \in Workers |-> FALSE]
    /\ shutSteps = [w \in Workers |-> 0]
    /\ pausedRunning = FALSE
    /\ automaton = 1
    /\ target = [t \in Threads |-> 0]
    /\ staleSteps = 0
    /\ bindWaited = FALSE

\* CellularAutomaton.__init__ of variant v, and of a second instance
\* nothing was handed to the parser yet
NotParsed == [returned |-> FALSE, num_states |-> 0, table |-> <<>>]

\* the caller holds no array yet
NoArray == [shape |-> <<0, 0>>, cells |-> <<>>]
\* RuleEngine.__init__
NewRuleEngine == [rule_type |-> "table", rules |-> <<>>, totalistic_rules |-> <<>>]
\* nothing saved, nothing loaded
NoFile == [written |-> FALSE, data |-> <<>>]
NotLoaded == [done |-> FALSE, engine |-> NewRuleEngine]
\* create_automaton was not called yet
NotCreated == ""
\* get_neighborhood was not called yet
NoQuery == [x |-> -1, y |-> -1, type |-> "none"]

\* with width w and height h; nothing parsed yet
ConstructedSized(v, r, w, h) ==
    /\ variant = v
    /\ rule_number = r
    /\ width = w
    /\ height = h
    /\ grid = ZeroGrid
    /\ current_row = 0
    /\ nsets = 0
    /\ fresh = [grid |-> ZeroGrid, current_row |-> 0]
    /\ history = <<>>
    /\ statistics = <<>>
    /\ ext = NoArray
    /\ aliased = FALSE
    /\ raised = FALSE
    /\ last = "other"
    /\ nsteps = 0
    /\ sinceInit = 0
    /\ pristine = FALSE
    /\ rule_string = <<>>
    /\ rules = NotParsed
    /\ rule_engine = NewRuleEngine
    /\ rule_file = NoFile
    /\ loaded = NotLoaded
    /\ query = NoQuery
    /\ neighborhood = <<>>
    /\ created = NotCreated

Constructed(v, r) == ConstructedSized(v, r, GridW, GridH)

\* the engine drives a GameOfLife automaton
EngineInit ==
    /\ EngineFields
    /\ Constructed("game_of_life", 0)

\* ---------------------------------------------------------- control calls
\* a start() that forgets to reset total_steps
StartKeepsTotal ==
    /\ pc[Main] = "idle"
    /\ ~running
    /\ thread < startCap
    /\ running' = TRUE
    /\ stop_event' = FALSE
    /\ pause_event' = TRUE
    /\ paused' = FALSE
    /\ thread' = thread + 1
    /\ pc' = [EventSet(pc) EXCEPT ![thread + 1] = "loop"]
    /\ stepsSince' = 0
    /\ genAtStart' = generation
    /\ gateGen' = [w \in Workers |-> NoGen]
    /\ disturbed' = [w \in Workers |-> FALSE]
    /\ stopBlocked' = [w \in Workers |-> FALSE]
    /\ shutSteps' = [w \in Workers |-> 0]
    /\ pausedRunning' = FALSE
    /\ UNCHANGED <<lock, total_steps, cfgVars, bindVars, generation, stepLocal,
                   errVars, doneVars>>
    /\ UNCHANGED caVars

\* start() when not running: reset flags and counters, spawn one worker
Start ==
    /\ pc[Main] = "idle"
    /\ ~running
    /\ thread < startCap
    /\ running' = TRUE
    /\ stop_event' = FALSE
    /\ pause_event' = TRUE
    /\ paused' = FALSE
    /\ total_steps' = 0
    /\ thread' = thread + 1
    /\ pc' = [EventSet(pc) EXCEPT ![thread + 1] = "loop"]
    /\ stepsSince' = 0
    /\ genAtStart' = generation
    /\ gateGen' = [w \in Workers |-> NoGen]
    /\ disturbed' = [w \in Workers |-> FALSE]
    /\ stopBlocked' = [w \in Workers |-> FALSE]
    /\ shutSteps' = [w \in Workers |-> 0]
    /\ pausedRunning' = FALSE
    /\ UNCHANGED <<lock, cfgVars, bindVars, generation, stepLocal, errVars, doneVars>>
    /\ UNCHANGED caVars

\* start() when already running: the test of self.running sends it to return
StartNoop ==
    /\ pc[Main] = "idle"
    /\ running
    /\ pc' = [pc EXCEPT ![Main] = "start_ret"]
    /\ UNCHANGED <<flagVars, lock, thread, total_steps, cfgVars, pauseVars, bindVars, generation,
                   stepLocal, errVars, doneVars, countVars, gateVars,
                   stopBlocked>>
    /\ UNCHANGED caVars

\* start() returns without having done anything
StartReturn ==
    /\ pc[Main] = "start_ret"
    /\ pc' = [pc EXCEPT ![Main] = "idle"]
    /\ UNCHANGED <<flagVars, lock, thread, total_steps, cfgVars, pauseVars, bindVars, generation,
                   stepLocal, errVars, doneVars, countVars, gateVars,
                   stopBlocked>>
    /\ UNCHANGED caVars

\* a stop() that leaves the pause gate as it is
StopKeepsGateShut ==
    /\ pc[Main] = "idle"
    /\ running' = FALSE
    /\ stop_event' = TRUE
    /\ pc' = [pc EXCEPT ![Main] = IF thread # 0 /\ pc[thread] # "dead"
                                  THEN "join" ELSE "idle"]
    /\ stopBlocked' = [w \in Workers |-> stopBlocked[w] \/ pc[w] = "blocked"]
    /\ gateGen' = [w \in Workers |-> NoGen]
    /\ disturbed' = [w \in Workers |-> FALSE]
    /\ shutSteps' = [w \in Workers |-> 0]
    /\ pausedRunning' = FALSE
    /\ UNCHANGED <<paused, pause_event, lock, thread, total_steps, cfgVars, bindVars,
                   generation, stepLocal, errVars, doneVars, countVars>>
    /\ UNCHANGED caVars

\* stop(): clear running, set both events, then join the latest worker
Stop ==
    /\ pc[Main] = "idle"
    /\ running' = FALSE
    /\ stop_event' = TRUE
    /\ pause_event' = TRUE
    /\ pc' = [EventSet(pc) EXCEPT
                ![Main] = IF thread # 0 /\ pc[thread] # "dead"
                          THEN "join" ELSE "idle"]
    /\ stopBlocked' = [w \in Workers |-> stopBlocked[w] \/ pc[w] = "blocked"]
    /\ gateGen' = [w \in Workers |-> NoGen]
    /\ disturbed' = [w \in Workers |-> FALSE]
    /\ shutSteps' = [w \in Workers |-> 0]
    /\ pausedRunning' = FALSE
    /\ UNCHANGED <<paused, lock, thread, total_steps, cfgVars, bindVars, generation,
                   stepLocal, errVars, doneVars, countVars>>
    /\ UNCHANGED caVars

\* thread.join(timeout=2.0) returns because the worker has finished
JoinReturn ==
    /\ pc[Main] = "join"
    /\ pc[thread] = "dead"
    /\ pc' = [pc EXCEPT ![Main] = "idle"]
    /\ UNCHANGED <<flagVars, lock, thread, total_steps, cfgVars, pauseVars, bindVars, generation,
                   stepLocal, errVars, doneVars, countVars, gateVars,
                   stopBlocked>>
    /\ UNCHANGED caVars

\* thread.join(timeout=2.0) returns because the two seconds have passed
JoinTimeout ==
    /\ pc[Main] = "join"
    /\ pc[thread] # "dead"
    /\ pc' = [pc EXCEPT ![Main] = "idle"]
    /\ UNCHANGED <<flagVars, lock, thread, total_steps, cfgVars, pauseVars, bindVars, generation,
                   stepLocal, errVars, doneVars, countVars, gateVars,
                   stopBlocked>>
    /\ UNCHANGED caVars

\* pause(): shut the gate
Pause ==
    /\ pc[Main] = "idle"
    /\ paused' = TRUE
    /\ pause_event' = FALSE
    /\ pausedRunning' = running
    /\ shutSteps' = IF pause_event THEN [w \in Workers |-> 0] ELSE shutSteps
    /\ stopBlocked' = [w \in Workers |-> FALSE]
    /\ UNCHANGED <<running, stop_event, lock, thread, total_steps, cfgVars, bindVars,
                   generation, stepLocal, pc, errVars, doneVars, countVars,
                   gateVars>>
    /\ UNCHANGED caVars

\* a resume() that steps the automaton itself before opening the gate
ResumeSteps ==
    /\ pc[Main] = "idle"
    /\ generation < MaxGen
    /\ generation' = generation + 1
    /\ paused' = FALSE
    /\ pause_event' = TRUE
    /\ pausedRunning' = FALSE
    /\ shutSteps' = [w \in Workers |-> 0]
    /\ pc' = EventSet(pc)
    /\ UNCHANGED <<running, stop_event, lock, thread, total_steps, cfgVars, bindVars,
                   stepLocal, errVars, doneVars, countVars, gateVars,
                   stopBlocked>>
    /\ UNCHANGED caVars

\* resume(): open the gate
Resume ==
    /\ pc[Main] = "idle"
    /\ paused' = FALSE
    /\ pause_event' = TRUE
    /\ pausedRunning' = FALSE
    /\ shutSteps' = [w \in Workers |-> 0]
    /\ pc' = EventSet(pc)
    /\ UNCHANGED <<running, stop_event, lock, thread, total_steps, cfgVars, bindVars,
                   generation, stepLocal, errVars, doneVars, countVars,
                   gateVars, stopBlocked>>
    /\ UNCHANGED caVars

\* an external step_once(): the caller goes for the lock
StepOnceCall ==
    /\ pc[Main] = "idle"
    /\ generation + InFlight < MaxGen
    /\ pc' = [pc EXCEPT ![Main] = "acquire"]
    /\ UNCHANGED <<flagVars, lock, thread, total_steps, cfgVars, pauseVars, bindVars, generation,
                   stepLocal, errVars, doneVars, countVars, gateVars,
                   stopBlocked>>
    /\ UNCHANGED caVars

\* ------------------------------------------------- step_once, any thread
\* with self.lock: ... self.automaton.step() begins and reads the automaton
AcquireLock(t) ==
    /\ pc[t] = "acquire"
    /\ LockFree(lock)
    /\ lock' = t
    /\ stepLocal' = [stepLocal EXCEPT ![t] = generation]
    /\ target' = [target EXCEPT ![t] = automaton]
    /\ shutSteps' = IF t \in Workers /\ ~pause_event
                    THEN [shutSteps EXCEPT ![t] = @ + 1] ELSE shutSteps
    /\ pc' = [pc EXCEPT ![t] = "in_step"]
    /\ UNCHANGED <<flagVars, thread, total_steps, cfgVars, pausedRunning, automaton,
                   staleSteps, bindWaited, generation,
                   errVars, doneVars, countVars, gateVars, stopBlocked>>
    /\ UNCHANGED caVars

\* self.automaton.step() writes the new grid and generation, and returns
StepOk(t) ==
    /\ pc[t] = "in_step"
    /\ stepLocal' = [stepLocal EXCEPT ![t] = NoGen]
    /\ target' = [target EXCEPT ![t] = 0]
    /\ pc' = [pc EXCEPT ![t] = "incr"]
    /\ stepsSince' = stepsSince + 1
    /\ disturbed' = [w \in Workers |->
                        disturbed[w] \/ (w # t /\ gateGen[w] # NoGen)]
    /\ gateGen' = gateGen
    /\ UNCHANGED <<flagVars, lock, thread, total_steps, cfgVars, pauseVars,
                   automaton, bindWaited, errVars, doneVars, genAtStart,
                   stopBlocked>>
    /\ IF target[t] = automaton
       THEN /\ generation' = StepGeneration(stepLocal[t])
            /\ grid' = StepGrid(variant, rule_number, grid, current_row)
            /\ current_row' = StepRow(variant, current_row)
            /\ staleSteps' = staleSteps
       ELSE /\ staleSteps' = staleSteps + 1
            /\ UNCHANGED <<generation, grid, current_row>>
    /\ UNCHANGED <<variant, rule_number, nsets, fresh, dimVars, storeVars,
                   callerVars, obsVars, parseVars, queryVars>>

\* self.total_steps += 1, leave the with block, on_step_callback, return
IncrSteps(t) ==
    /\ pc[t] = "incr"
    /\ total_steps' = total_steps + 1
    /\ lock' = NoThread
    /\ pc' = [pc EXCEPT ![t] = IF t = Main THEN "idle" ELSE "loop"]
    /\ gateGen' = [w \in Workers |-> IF w = t THEN NoGen ELSE gateGen[w]]
    /\ disturbed' = [w \in Workers |-> IF w = t THEN FALSE ELSE disturbed[w]]
    /\ UNCHANGED <<flagVars, thread, cfgVars, pauseVars, bindVars, generation, stepLocal, errVars,
                   doneVars, countVars, stopBlocked>>
    /\ UNCHANGED caVars

\* a step_once whose handler calls the callback and raises the error again
StepRaiseReraises(t) ==
    /\ pc[t] = "in_step"
    /\ raises < MaxErr
    /\ raises' = raises + 1
    /\ lock' = NoThread
    /\ stepLocal' = [stepLocal EXCEPT ![t] = NoGen]
    /\ target' = [target EXCEPT ![t] = 0]
    /\ errCalls' = IF on_error_callback THEN errCalls + 1 ELSE errCalls
    /\ pc' = [pc EXCEPT ![t] = IF t = Main THEN "idle" ELSE "finally"]
    /\ propagated' = [w \in Workers |-> propagated[w] \/ w = t]
    /\ gateGen' = [w \in Workers |-> IF w = t THEN NoGen ELSE gateGen[w]]
    /\ disturbed' = [w \in Workers |-> IF w = t THEN FALSE ELSE disturbed[w]]
    /\ UNCHANGED <<flagVars, thread, total_steps, cfgVars, pauseVars, automaton,
                   staleSteps, bindWaited, generation,
                   doneVars, countVars, stopBlocked>>
    /\ UNCHANGED caVars

\* self.automaton.step() raises: the with block releases the lock, then
\* step_once's handler calls on_error_callback and returns, or re-raises
\* when there is none; in a worker the re-raised error reaches _run_loop's
\* handler, which finds no callback either and raises it again
StepRaise(t) ==
    /\ pc[t] = "in_step"
    /\ raises < MaxErr
    /\ raises' = raises + 1
    /\ lock' = NoThread
    /\ stepLocal' = [stepLocal EXCEPT ![t] = NoGen]
    /\ target' = [target EXCEPT ![t] = 0]
    /\ errCalls' = IF on_error_callback THEN errCalls + 1 ELSE errCalls
    /\ pc' = [pc EXCEPT ![t] = IF t = Main THEN "idle"
                               ELSE IF on_error_callback THEN "loop"
                               ELSE "finally"]
    /\ propagated' = [w \in Workers |->
                        propagated[w] \/ (w = t /\ ~on_error_callback)]
    /\ gateGen' = [w \in Workers |-> IF w = t THEN NoGen ELSE gateGen[w]]
    /\ disturbed' = [w \in Workers |-> IF w = t THEN FALSE ELSE disturbed[w]]
    /\ UNCHANGED <<flagVars, thread, total_steps, cfgVars, pauseVars, automaton,
                   staleSteps, bindWaited, generation,
                   doneVars, countVars, stopBlocked>>
    /\ UNCHANGED caVars

\* --------------------------------------------------------- set_automaton
\* set_automaton(b): the caller goes for the lock
SetAutomatonCall ==
    /\ pc[Main] = "idle"
    /\ automaton <= MaxBind
    /\ pc' = [pc EXCEPT ![Main] = "bind"]
    /\ bindWaited' = (\E t \in Threads : target[t] # 0)
    /\ UNCHANGED <<flagVars, lock, thread, total_steps, cfgVars, pauseVars,
                   automaton, target, staleSteps, generation, stepLocal,
                   errVars, doneVars, countVars, gateVars, stopBlocked>>
    /\ UNCHANGED caVars

\* a set_automaton that assigns without the lock
SetAutomatonUnlocked ==
    /\ pc[Main] = "bind"
    /\ automaton' = automaton + 1
    /\ generation' = 0
    /\ grid' = ZeroGrid
    /\ current_row' = 0
    /\ pc' = [pc EXCEPT ![Main] = "idle"]
    /\ UNCHANGED <<flagVars, lock, thread, total_steps, cfgVars, pauseVars,
                   target, staleSteps, bindWaited,
                   stepLocal, errVars, doneVars,
                   countVars, gateVars, stopBlocked>>
    /\ UNCHANGED <<variant, rule_number, nsets, fresh, dimVars, storeVars,
                   callerVars, obsVars, parseVars, queryVars>>

\* with self.lock: self.automaton = b, for a newly constructed automaton b
\* of the same class and size; the lock is taken and released in one go
SetAutomaton ==
    /\ pc[Main] = "bind"
    /\ LockFree(lock)
    /\ automaton' = automaton + 1
    /\ generation' = 0
    /\ grid' = ZeroGrid
    /\ current_row' = 0
    /\ pc' = [pc EXCEPT ![Main] = "idle"]
    /\ UNCHANGED <<flagVars, lock, thread, total_steps, cfgVars, pauseVars,
                   target, staleSteps, bindWaited,
                   stepLocal, errVars, doneVars,
                   countVars, gateVars, stopBlocked>>
    /\ UNCHANGED <<variant, rule_number, nsets, fresh, dimVars, storeVars,
                   callerVars, obsVars, parseVars, queryVars>>

\* ------------------------------------------------------------- _run_loop
\* while self.running and not self.stop_event.is_set():
LoopTest(w) ==
    /\ pc[w] = "loop"
    /\ pc' = [pc EXCEPT ![w] = IF running /\ ~stop_event THEN "wait"
                               ELSE "finally"]
    /\ UNCHANGED <<flagVars, lock, thread, total_steps, cfgVars, pauseVars, bindVars, generation,
                   stepLocal, errVars, doneVars, countVars, gateVars,
                   stopBlocked>>
    /\ UNCHANGED caVars

\* self.pause_event.wait(): pass if the event is set, else block on it
GateWait(w) ==
    /\ pc[w] = "wait"
    /\ pc' = [pc EXCEPT ![w] = IF pause_event THEN "chk" ELSE "blocked"]
    /\ gateGen' = [gateGen EXCEPT ![w] = IF pause_event THEN NoGen
                                         ELSE generation]
    /\ disturbed' = [disturbed EXCEPT ![w] = FALSE]
    /\ UNCHANGED <<flagVars, lock, thread, total_steps, cfgVars, pauseVars, bindVars, generation,
                   stepLocal, errVars, doneVars, countVars, stopBlocked>>
    /\ UNCHANGED caVars

\* a loop that breaks only once total_steps is past max_generations
LoopChecksPastCutoff(w) ==
    /\ pc[w] = "chk"
    /\ IF stop_event \/ (max_generations # 0 /\ total_steps > max_generations)
       THEN pc' = [pc EXCEPT ![w] = "finally"]
       ELSE /\ generation + InFlight < MaxGen
            /\ pc' = [pc EXCEPT ![w] = "acquire"]
    /\ UNCHANGED <<flagVars, lock, thread, total_steps, cfgVars, pauseVars,
                   bindVars, generation, stepLocal, errVars, doneVars,
                   countVars, gateVars, stopBlocked>>
    /\ UNCHANGED caVars

\* if self.stop_event.is_set(): break
\* if self.max_generations and self.total_steps >= self.max_generations: break
\* self.step_once()
LoopChecks(w) ==
    /\ pc[w] = "chk"
    /\ IF stop_event \/ (max_generations # 0 /\ total_steps >= max_generations)
       THEN pc' = [pc EXCEPT ![w] = "finally"]
       ELSE /\ generation + InFlight < MaxGen
            /\ pc' = [pc EXCEPT ![w] = "acquire"]
    /\ UNCHANGED <<flagVars, lock, thread, total_steps, cfgVars, pauseVars, bindVars, generation,
                   stepLocal, errVars, doneVars, countVars, gateVars,
                   stopBlocked>>
    /\ UNCHANGED caVars

\* finally: self.running = False
Finally(w) ==
    /\ pc[w] = "finally"
    /\ running' = FALSE
    /\ pc' = [pc EXCEPT ![w] = "complete"]
    /\ UNCHANGED <<paused, stop_event, pause_event, lock, thread, total_steps,
                   cfgVars, pauseVars, bindVars, generation, stepLocal, errVars, doneVars,
                   countVars, gateVars, stopBlocked>>
    /\ UNCHANGED caVars

\* self.on_complete_callback(); the thread ends
Complete(w) ==
    /\ pc[w] = "complete"
    /\ nComplete' = [nComplete EXCEPT ![w] = @ + 1]
    /\ runAtComplete' = [runAtComplete EXCEPT ![w] = running]
    /\ pc' = [pc EXCEPT ![w] = "dead"]
    /\ UNCHANGED <<flagVars, lock, thread, total_steps, cfgVars, pauseVars, bindVars, generation,
                   stepLocal, errVars, countVars, gateVars, stopBlocked>>
    /\ UNCHANGED caVars

WorkerNext(w) ==
    \/ LoopTest(w)
    \/ GateWait(w)
    \/ LoopChecks(w)
    \/ AcquireLock(w)
    \/ StepOk(w)
    \/ IncrSteps(w)
    \/ StepRaise(w)
    \/ Finally(w)
    \/ Complete(w)

MainNext ==
    \/ Start
    \/ StartNoop
    \/ StartReturn
    \/ Stop
    \/ JoinReturn
    \/ JoinTimeout
    \/ Pause
    \/ Resume
    \/ StepOnceCall
    \/ AcquireLock(Main)
    \/ StepOk(Main)
    \/ IncrSteps(Main)
    \/ StepRaise(Main)

SimInit ==
    /\ EngineInit
    /\ startCap = MaxWorkers

Init == SimInit

Next ==
    \/ MainNext
    \/ \E w \in Workers : WorkerNext(w)

Spec == Init /\ [][Next]_vars

\* the same engine, restarted once more
RestartInit ==
    /\ EngineInit
    /\ startCap = MaxWorkers + 1

RestartSpec == RestartInit /\ [][Next]_vars

\* the engine as constructed by default: no cutoff, no error callback
FairInit ==
    /\ EngineInit
    /\ startCap = MaxWorkers
    /\ max_generations = 0
    /\ on_error_callback = FALSE

\* the operating system schedules every live worker thread again and again
FairSpec == FairInit /\ [][Next]_vars /\ \A w \in Workers : WF_vars(WorkerNext(w))


\* every step() terminates: a step_once() of the controlling thread that has
\* begun goes on to its end
MainStep ==
    \/ AcquireLock(Main)
    \/ StepOk(Main)
    \/ IncrSteps(Main)
    \/ StepRaise(Main)

\* fair scheduling of the workers together with terminating steps
StopFairSpec ==
    /\ FairInit
    /\ [][Next]_vars
    /\ \A w \in Workers : WF_vars(WorkerNext(w))
    /\ WF_vars(MainStep)

\* the engine with set_automaton among the calls of the controlling thread
BindNext ==
    \/ Start
    \/ Stop
    \/ JoinReturn
    \/ JoinTimeout
    \/ StepOnceCall
    \/ SetAutomatonCall
    \/ SetAutomaton
    \/ AcquireLock(Main)
    \/ StepOk(Main)
    \/ IncrSteps(Main)
    \/ StepRaise(Main)
    \/ \E w \in Workers : WorkerNext(w)

\* no cutoff configured: the worker steps for as long as it is let
BindInit ==
    /\ SimInit
    /\ max_generations = 0

BindSpec == BindInit /\ [][BindNext]_vars

\* max_generations configured before the one start() that spawns the worker,
\* and no step_once() from outside the worker
CutInit ==
    /\ EngineInit
    /\ startCap = 1
    /\ max_generations >= 1

CutNext ==
    \/ Start
    \/ StartNoop
    \/ StartReturn
    \/ Stop
    \/ JoinReturn
    \/ JoinTimeout
    \/ Pause
    \/ Resume
    \/ \E w \in Workers : WorkerNext(w)

CutSpec == CutInit /\ [][CutNext]_vars
\* =================================================== the automaton alone
\* what an action on the grid leaves alone
fixedVars == <<engVars, variant, rule_number, dimVars, fresh, parseVars,
               queryVars>>

\* initialize_pattern(name): writes the pattern into the present grid
InitializePattern(name) ==
    /\ grid' = PatternGrid(variant, name, grid)
    /\ current_row' = 0
    /\ sinceInit' = 0
    /\ pristine' = (grid = ZeroGrid /\ grid' = SingleCell(ZeroGrid))
    /\ raised' = FALSE
    /\ last' = "other"
    /\ UNCHANGED <<fixedVars, generation, nsets, storeVars, ext, aliased, nsteps>>

\* a write that indexes as numpy does (a negative index counts from the
\* end) and takes any state
SetCellGridUnchecked(g, x, y, state) ==
    IF x \in (-width)..(width - 1) /\ y \in (-height)..(height - 1)
    THEN [g EXCEPT ![y % height][x % width] = state]
    ELSE g

\* the grid after set_cell(x, y, state): the write is skipped outside the
\* grid or the state range
SetCellGrid(g, x, y, state) ==
    IF 0 <= x /\ x < width /\ 0 <= y /\ y < height
    THEN IF 0 <= state /\ state < NumStates(variant)
         THEN [g EXCEPT ![y][x] = state]
         ELSE g
    ELSE g

\* set_cell(x, y, state)
SetCell(x, y, state) ==
    /\ nsets < MaxSets
    /\ nsets' = nsets + 1
    /\ grid' = SetCellGrid(grid, x, y, state)
    /\ pristine' = FALSE
    /\ raised' = FALSE
    /\ last' = "other"
    /\ UNCHANGED <<fixedVars, generation, current_row, storeVars, ext, aliased,
                   nsteps, sinceInit>>

\* step(), returning or raising
Step ==
    /\ nsteps < MaxSteps
    /\ nsteps' = nsteps + 1
    /\ sinceInit' = sinceInit + 1
    /\ IF StepRaises(variant, grid, current_row)
       THEN UNCHANGED <<grid, current_row, generation>>
       ELSE /\ grid' = StepGrid(variant, rule_number, grid, current_row)
            /\ current_row' = StepRow(variant, current_row)
            /\ generation' = StepGen(variant, current_row, generation)
    /\ raised' = StepRaises(variant, grid, current_row)
    /\ last' = "other"
    /\ UNCHANGED <<fixedVars, nsets, storeVars, ext, aliased, pristine>>

\* fresh.import_grid(self.export_grid()): both sides copy the array
ImportGrid ==
    /\ fresh' = [fresh EXCEPT !.grid = grid]
    /\ UNCHANGED <<engVars, generation, variant, rule_number, grid,
                   current_row, nsets, dimVars, storeVars, callerVars,
                   obsVars, parseVars, queryVars>>

\* an array of the automaton's own shape
OwnShape(cells) == [shape |-> <<height, width>>, cells |-> cells]

\* import_grid(g) that takes the caller's array as its grid without copying
ImportGridFromShared(g) ==
    /\ ext' = g
    /\ last' = "import_grid"
    /\ IF g.shape = <<height, width>>
       THEN grid' = g.cells /\ raised' = FALSE /\ aliased' = TRUE
       ELSE grid' = grid /\ raised' = TRUE /\ aliased' = FALSE
    /\ pristine' = FALSE
    /\ UNCHANGED <<fixedVars, generation, current_row, nsets, storeVars,
                   nsteps, sinceInit>>

\* import_grid(g) for an array g of the caller's: a copy of g becomes the
\* grid when the shapes agree, ValueError is raised otherwise
ImportGridFrom(g) ==
    /\ ext' = g
    /\ last' = "import_grid"
    /\ IF g.shape = <<height, width>>
       THEN grid' = g.cells /\ raised' = FALSE
       ELSE grid' = grid /\ raised' = TRUE
    /\ aliased' = FALSE
    /\ pristine' = FALSE
    /\ UNCHANGED <<fixedVars, generation, current_row, nsets, storeVars,
                   nsteps, sinceInit>>

InitCA ==
    /\ EngineFields
    /\ startCap = 0
    /\ max_generations = 0
    /\ on_error_callback = FALSE
    /\ \E v \in Variants :
          \E r \in (IF v = "elementary" THEN RuleNumbers ELSE {0}) :
              Constructed(v, r)

NextCA ==
    \/ \E name \in PatternNames : InitializePattern(name)
    \/ \E x \in -1..GridW, y \in -1..GridH, state \in -1..MaxVal :
          SetCell(x, y, state)
    \/ Step
    \/ ImportGrid

SpecCA == InitCA /\ [][NextCA]_vars

\* ElementaryCA(ElemW, ElemH, rule)
InitElem ==
    /\ EngineFields
    /\ startCap = 0
    /\ max_generations = 0
    /\ on_error_callback = FALSE
    /\ \E r \in RuleNumbers : ConstructedSized("elementary", r, ElemW, ElemH)

NextElem ==
    \/ \E name \in {"single_cell", "alternating", "three_cells"} :
          InitializePattern(name)
    \/ \E x \in Cols, y \in Rows, state \in 0..1 : SetCell(x, y, state)
    \/ Step

SpecElem == InitElem /\ [][NextElem]_vars

\* ------------------------------------------- GameOfLife and WireWorld
LifeVariants == {"game_of_life", "wireworld"}

\* a vertical line of three live cells centred on (cx, cy)
VerticalBlinker(cx, cy) ==
    [y \in Rows |-> [x \in Cols |->
        IF x = cx /\ y \in {(cy - 1) % height, cy, (cy + 1) % height}
        THEN 1 ELSE 0]]

\* a horizontal line of three live cells centred on (cx, cy)
HorizontalBlinker(cx, cy) ==
    [y \in Rows |-> [x \in Cols |->
        IF y = cy /\ x \in {(cx - 1) % width, cx, (cx + 1) % width}
        THEN 1 ELSE 0]]

\* cell (0, 0) in state c, its torus neighbours at the offsets S in state a,
\* its other neighbours in state b, every other cell 0
Painted(c, S, a, b) ==
    [y \in Rows |-> [x \in Cols |->
        IF x = 0 /\ y = 0 THEN c
        ELSE IF \E d \in S : x = d[1] % width /\ y = d[2] % height THEN a
        ELSE IF \E d \in MooreOffsets : x = d[1] % width /\ y = d[2] % height
             THEN b
        ELSE 0]]

\* the arrays a caller imports in SpecLife
LifeInputs ==
    IF variant = "game_of_life"
    THEN {OwnShape(VerticalBlinker(cx, cy)) : cx \in Cols, cy \in Rows}
         \cup {OwnShape(Painted(c, S, 1, 0)) :
                    c \in 0..1, S \in SUBSET MooreOffsets}
    ELSE {OwnShape(Painted(c, S, HeadCell, b)) :
                    c \in EmptyCell..TailCell, S \in SUBSET MooreOffsets,
                    b \in EmptyCell..TailCell}

\* GameOfLife(LifeW, LifeH) or WireWorld(LifeW, LifeH)
InitLife ==
    /\ EngineFields
    /\ startCap = 0
    /\ max_generations = 0
    /\ on_error_callback = FALSE
    /\ \E v \in LifeVariants : ConstructedSized(v, 0, LifeW, LifeH)

\* one array is imported, before or between the steps
NextLife ==
    \/ ext = NoArray /\ \E g \in LifeInputs : ImportGridFrom(g)
    \/ Step

SpecLife == InitLife /\ [][NextLife]_vars

\* ------------------------------------- the interface of the base class
\* export_grid(): a copy of the grid, an array of its shape
ExportGrid == OwnShape(grid)

\* a round trip in which import_grid starts the count of generations anew
RoundTripResetsGeneration ==
    /\ IF ExportGrid.shape = <<height, width>>
       THEN grid' = ExportGrid.cells /\ raised' = FALSE /\ generation' = 0
       ELSE grid' = grid /\ raised' = TRUE /\ generation' = generation
    /\ aliased' = FALSE
    /\ last' = "round_trip"
    /\ UNCHANGED <<fixedVars, current_row, nsets, storeVars, ext, obsVars>>

\* import_grid(export_grid()); the caller keeps neither array
RoundTrip ==
    /\ IF ExportGrid.shape = <<height, width>>
       THEN grid' = ExportGrid.cells /\ raised' = FALSE
       ELSE grid' = grid /\ raised' = TRUE
    /\ aliased' = FALSE
    /\ last' = "round_trip"
    /\ UNCHANGED <<fixedVars, generation, current_row, nsets, storeVars, ext,
                   obsVars>>

\* the caller writes v at [y, x] of the array it passed to import_grid
CallerWrites(x, y, v) ==
    /\ ext # NoArray
    /\ y \in DOMAIN ext.cells /\ x \in DOMAIN ext.cells[y]
    /\ ext' = [ext EXCEPT !.cells[y][x] = v]
    /\ grid' = IF aliased THEN ext'.cells ELSE grid
    /\ last' = "other"
    /\ UNCHANGED <<fixedVars, generation, current_row, nsets, storeVars,
                   aliased, raised, obsVars>>

\* save_snapshot(): a copy of the grid is appended to history
SaveSnapshot ==
    /\ history' = Append(history, grid)
    /\ raised' = FALSE
    /\ last' = "other"
    /\ UNCHANGED <<fixedVars, generation, grid, current_row, nsets, statistics,
                   ext, aliased, obsVars>>

\* the cells of g that are not 0, and the states that occur in g
ActiveCells(g) == Cardinality({p \in Cols \X Rows : g[p[2]][p[1]] # 0})
UniqueStates(g) == {g[y][x] : y \in Rows, x \in Cols}

\* the record compute_statistics builds (density and entropy, both
\* functions of the counts, left out)
Stats(g, gen) ==
    [generation |-> gen,
     total_cells |-> width * height,
     active_cells |-> ActiveCells(g),
     state_counts |-> [s \in UniqueStates(g) |->
                          Cardinality({p \in Cols \X Rows : g[p[2]][p[1]] = s})],
     unique_states |-> Cardinality(UniqueStates(g))]

\* compute_statistics(): the record is stored under the generation
ComputeStatistics ==
    /\ statistics' = (generation :> Stats(grid, generation)) @@ statistics
    /\ raised' = FALSE
    /\ last' = "other"
    /\ UNCHANGED <<fixedVars, generation, grid, current_row, nsets, history,
                   ext, aliased, obsVars>>

\* a reset() that leaves the snapshots in place
ResetKeepsHistory ==
    /\ grid' = ZeroGrid
    /\ generation' = 0
    /\ statistics' = <<>>
    /\ aliased' = FALSE
    /\ raised' = FALSE
    /\ last' = "reset"
    /\ pristine' = FALSE
    /\ UNCHANGED <<fixedVars, current_row, nsets, history, ext, nsteps,
                   sinceInit>>

\* reset(): a new all-zero grid; the subclass's fields are not touched
Reset ==
    /\ grid' = ZeroGrid
    /\ generation' = 0
    /\ history' = <<>>
    /\ statistics' = <<>>
    /\ aliased' = FALSE
    /\ raised' = FALSE
    /\ last' = "reset"
    /\ pristine' = FALSE
    /\ UNCHANGED <<fixedVars, current_row, nsets, ext, nsteps, sinceInit>>

\* np.full((h, w), v)
Full(h, w, v) ==
    [shape |-> <<h, w>>,
     cells |-> [y \in 0..(h - 1) |-> [x \in 0..(w - 1) |-> v]]]

\* the arrays a caller imports in SpecAPI: of the automaton's shape, of the
\* transposed shape and one row taller, holding a state of the variant or
\* the first value that is none
ApiInputs ==
    {Full(height, width, 1), Full(height, width, NumStates(variant)),
     Full(width, height, 1), Full(height + 1, width, 1)}

\* the names handed to initialize_pattern in SpecAPI: one that several
\* variants know and one that none does
ApiPatternNames == {"three_cells", "glider", "unknown"}

\* the set_cell calls of SpecAPI: one in range, and one with each argument
\* just below and just above its range
ApiSetCells ==
    {<<0, 0, 1>>, <<-1, 0, 1>>, <<width, 0, 1>>, <<0, -1, 1>>,
     <<0, height, 1>>, <<0, 0, -1>>, <<0, 0, NumStates(variant)>>}

\* any variant, on a grid that is not square
InitAPI ==
    /\ EngineFields
    /\ startCap = 0
    /\ max_generations = 0
    /\ on_error_callback = FALSE
    /\ \E v \in Variants :
          ConstructedSized(v, IF v = "elementary" THEN 30 ELSE 0, ApiW, ApiH)

\* one array is imported, which the caller writes while
\* the grid still equals it; the store holds one snapshot or the statistics
\* of one generation at a time
NextAPI ==
    \/ \E name \in ApiPatternNames : InitializePattern(name)
    \/ \E c \in ApiSetCells : SetCell(c[1], c[2], c[3])
    \/ nsteps < ApiSteps /\ Step
    \/ ext = NoArray /\ \E g \in ApiInputs : ImportGridFrom(g)
    \/ RoundTrip
    \/ ext.cells = grid /\ CallerWrites(0, 0, 0)
    \/ history = <<>> /\ statistics = <<>> /\ SaveSnapshot
    \/ history = <<>> /\ DOMAIN statistics \subseteq {generation}
          /\ ComputeStatistics
    \/ Reset

SpecAPI == InitAPI /\ [][NextAPI]_vars

\* ------------------------------------------------------ get_neighborhood
\* metadata.neighborhood_type
NeighborhoodType(v) ==
    CASE v \in {"game_of_life", "wireworld"} -> "moore"
      [] v \in TableVariants -> "von_neumann"
      [] OTHER -> "custom"

\* get_neighborhood with the two horizontal neighbours taken for each other
get_neighborhood_mirrored(g, x, y, type) ==
    LET h == height
        w == width
    IN  IF type = "von_neumann"
        THEN [center |-> g[y][x],
              north |-> g[(y - 1) % h][x],
              south |-> g[(y + 1) % h][x],
              east |-> g[y][(x - 1) % w],
              west |-> g[y][(x + 1) % w]]
        ELSE [i \in 0..2 |-> [j \in 0..2 |->
                 g[(y + (i - 1)) % h][(x - (j - 1)) % w]]]

\* what get_neighborhood(x, y, type) returns for "von_neumann" (a dict) and
\* for "moore" (a 3x3 array, indexed [dy + 1][dx + 1])
get_neighborhood(g, x, y, type) ==
    LET h == height
        w == width
    IN  IF type = "von_neumann"
        THEN [center |-> g[y][x],
              north |-> g[(y - 1) % h][x],
              south |-> g[(y + 1) % h][x],
              east |-> g[y][(x + 1) % w],
              west |-> g[y][(x - 1) % w]]
        ELSE [i \in 0..2 |-> [j \in 0..2 |->
                 g[(y + (i - 1)) % h][(x + (j - 1)) % w]]]

\* a call get_neighborhood(x, y, type); type "default" stands for None, the
\* variant's own type, and any type but the two above raises
\* NotImplementedError
GetNeighborhood(x, y, type) ==
    LET t == IF type = "default" THEN NeighborhoodType(variant) ELSE type
    IN  /\ query' = [x |-> x, y |-> y, type |-> t]
        /\ IF t \in {"von_neumann", "moore"}
           THEN neighborhood' = get_neighborhood(grid, x, y, t)
                /\ raised' = FALSE
           ELSE neighborhood' = neighborhood /\ raised' = TRUE
        /\ last' = "get_neighborhood"
        /\ UNCHANGED <<engVars, generation, variant, rule_number, grid,
                       current_row, nsets, fresh, dimVars, storeVars, ext,
                       aliased, obsVars, parseVars, created>>

\* the types handed to get_neighborhood
NeighborhoodTypes == {"default", "von_neumann", "moore"}

\* ElementaryCA, GameOfLife or LangtonLoop on a NbW x NbH grid
InitNbhd ==
    /\ EngineFields
    /\ startCap = 0
    /\ max_generations = 0
    /\ on_error_callback = FALSE
    /\ \E v \in {"elementary", "game_of_life", "langton_loop"} :
          ConstructedSized(v, IF v = "elementary" THEN 30 ELSE 0, NbW, NbH)

\* cells are marked with set_cell, then neighbourhoods are read
NextNbhd ==
    \/ query = NoQuery /\ \E x \in Cols, y \in Rows : SetCell(x, y, 1)
    \/ \E x \in Cols, y \in Rows, type \in NeighborhoodTypes :
          GetNeighborhood(x, y, type)

SpecNbhd == InitNbhd /\ [][NextNbhd]_vars

\* ------------------------------------------------------ plugin registry
\* PLUGIN_REGISTRY: the class a plugin constructs and the rule it passes
\* (the plugins whose fallback pattern is random, and WireWorld, left out)
PLUGIN_REGISTRY ==
    [langton_loop |-> [variant |-> "langton_loop", rule |-> 0],
     von_neumann |-> [variant |-> "von_neumann", rule |-> 0],
     von_neumann_full |-> [variant |-> "von_neumann_full", rule |-> 0],
     game_of_life |-> [variant |-> "game_of_life", rule |-> 0],
     highlife |-> [variant |-> "highlife", rule |-> 0],
     seeds |-> [variant |-> "seeds", rule |-> 0],
     rule_30 |-> [variant |-> "elementary", rule |-> 30],
     rule_110 |-> [variant |-> "elementary", rule |-> 110],
     rule_90 |-> [variant |-> "elementary", rule |-> 90]]

\* the names initialize_pattern tells apart
KnownPatterns(v) ==
    CASE v = "elementary" ->
            {"single_cell", "random", "alternating", "three_cells"}
      [] v = "game_of_life" ->
            {"glider_gun", "glider", "pulsar", "pentadecathlon",
             "lightweight_spaceship", "r_pentomino", "diehard", "acorn",
             "random"}
      [] v = "langton_loop" -> {"basic_loop", "extended_loop"}
      [] v = "von_neumann" ->
            {"simple_reproducer", "signal_line", "constructor_arm"}
      [] v = "von_neumann_full" ->
            {"constructor_arm", "signal_wire", "replicator_seed",
             "transmission_demo"}
      [] v = "highlife" -> {"replicator", "random", "glider"}
      [] v = "seeds" ->
            {"single_cell", "line", "cross", "random", "serviette",
             "two_cells"}

\* the pattern initialize_pattern writes for a name it does not know
FallbackPattern(v) ==
    CASE v = "elementary" -> "single_cell"
      [] v = "game_of_life" -> "glider_gun"
      [] v = "langton_loop" -> "basic_loop"
      [] v = "von_neumann" -> "simple_reproducer"
      [] v = "von_neumann_full" -> "transmission_demo"
      [] v = "highlife" -> "replicator"
      [] v = "seeds" -> "single_cell"

\* a create_automaton that turns down a name the variant does not know
CreateAutomatonStrict(name) ==
    /\ created' = name
    /\ grid' = IF name \in KnownPatterns(variant)
               THEN PatternGrid(variant, name, ZeroGrid) ELSE ZeroGrid
    /\ raised' = (name \notin KnownPatterns(variant))
    /\ generation' = 0
    /\ current_row' = 0
    /\ history' = <<>>
    /\ statistics' = <<>>
    /\ sinceInit' = 0
    /\ pristine' = (grid' = SingleCell(ZeroGrid))
    /\ aliased' = FALSE
    /\ last' = "create_automaton"
    /\ UNCHANGED <<engVars, variant, rule_number, dimVars, fresh, parseVars,
                   query, neighborhood, nsets, ext, nsteps>>

\* plugin.create_automaton(width, height, pattern=name): a new automaton
\* of the plugin's class, then initialize_pattern(name) on it
CreateAutomaton(name) ==
    /\ created' = name
    /\ grid' = PatternGrid(variant, name, ZeroGrid)
    /\ raised' = FALSE
    /\ generation' = 0
    /\ current_row' = 0
    /\ history' = <<>>
    /\ statistics' = <<>>
    /\ sinceInit' = 0
    /\ pristine' = (grid' = SingleCell(ZeroGrid))
    /\ aliased' = FALSE
    /\ last' = "create_automaton"
    /\ UNCHANGED <<engVars, variant, rule_number, dimVars, fresh, parseVars,
                   query, neighborhood, nsets, ext, nsteps>>

\* the names handed to create_automaton in SpecPlugin
PluginPatternNames == PatternNames \cup {"glider_gun", "replicator", ""}

\* the automaton a plugin of the registry constructs
InitPlugin ==
    /\ EngineFields
    /\ startCap = 0
    /\ max_generations = 0
    /\ on_error_callback = FALSE
    /\ \E p \in DOMAIN PLUGIN_REGISTRY :
          ConstructedSized(PLUGIN_REGISTRY[p].variant, PLUGIN_REGISTRY[p].rule,
                           PlugW, PlugH)

\* automata are created and, where step() is modelled, stepped
NextPlugin ==
    \/ \E name \in PluginPatternNames : CreateAutomaton(name)
    \/ variant \in Variants /\ Step

SpecPlugin == InitPlugin /\ [][NextPlugin]_vars


\* ============================================================ RuleParser
\* the characters \d matches, and int() of each
Digits == {"0", "1", "2", "3", "4", "5", "6", "7", "8", "9"}
DigitValue(c) ==
    CASE c = "0" -> 0 [] c = "1" -> 1 [] c = "2" -> 2 [] c = "3" -> 3
      [] c = "4" -> 4 [] c = "5" -> 5 [] c = "6" -> 6 [] c = "7" -> 7
      [] c = "8" -> 8 [] c = "9" -> 9

\* \d+ at position i of s: the length of the longest run of digits there
RECURSIVE DigitRun(_, _)
DigitRun(s, i) ==
    IF i <= Len(s) /\ s[i] \in Digits THEN 1 + DigitRun(s, i + 1) ELSE 0

\* re.match(r'B(\d+)/S(\d+)', s): the two groups, or <<>> without a match
MatchBS(s) ==
    LET n1 == DigitRun(s, 2)
        n2 == DigitRun(s, n1 + 4)
    IN  IF /\ Len(s) >= 1 /\ s[1] = "B"
           /\ n1 >= 1
           /\ Len(s) >= n1 + 3 /\ s[n1 + 2] = "/" /\ s[n1 + 3] = "S"
           /\ n2 >= 1
        THEN <<SubSeq(s, 2, n1 + 1), SubSeq(s, n1 + 4, n1 + 3 + n2)>>
        ELSE <<>>

\* [int(d) for d in group], as the set `in` tests membership of
DigitList(group) == {DigitValue(group[i]) : i \in 1..Len(group)}

\* the table built from the two digit lists
TotalisticTable(birth, survive, num_states) ==
    [p \in (0..(num_states - 1)) \X (0..8) |->
        IF p[1] = 0
        THEN IF p[2] \in birth THEN 1 ELSE 0
        ELSE IF p[2] \in survive THEN 1 ELSE 0]

\* a parser that reads the survive digits before the slash
parse_totalistic_rule_swapped(s, num_states) ==
    LET m == MatchBS(s)
    IN  IF m = <<>> THEN <<>>
        ELSE TotalisticTable(DigitList(m[2]), DigitList(m[1]), num_states)

\* RuleParser.parse_totalistic_rule(s, num_states)
parse_totalistic_rule(s, num_states) ==
    LET m == MatchBS(s)
    IN  IF m = <<>> THEN <<>>
        ELSE TotalisticTable(DigitList(m[1]), DigitList(m[2]), num_states)

\* a call of the parser
ParseTotalistic(s, num_states) ==
    /\ rule_string' = s
    /\ rules' = [returned |-> TRUE, num_states |-> num_states,
                 table |-> parse_totalistic_rule(s, num_states)]
    /\ UNCHANGED <<engVars, generation, variant, rule_number, grid,
                   current_row, nsets, fresh, dimVars, storeVars, callerVars,
                   obsVars, queryVars, rule_engine, rule_file, loaded>>

\* the characters rule strings are made of, and the strings handed over
RuleChars == {"B", "S", "/", "2", "3"}
RuleStrings == UNION {[1..n -> RuleChars] : n \in 0..MaxRuleLen}

InitParse ==
    /\ EngineFields
    /\ startCap = 0
    /\ max_generations = 0
    /\ on_error_callback = FALSE
    /\ Constructed("game_of_life", 0)

\* one call in a behaviour, with num_states left at its default or given
NextParse ==
    /\ ~rules.returned
    /\ \E s \in RuleStrings, n \in 2..3 : ParseTotalistic(s, n)

SpecParse == InitParse /\ [][NextParse]_vars

\* ============================================================ RuleEngine
\* str(n) for an int n >= 0, as characters
RECURSIVE IntStr(_)
IntStr(n) ==
    LET digit == CHOOSE c \in Digits : DigitValue(c) = n % 10
    IN  IF n < 10 THEN <<digit>> ELSE Append(IntStr(n \div 10), digit)

\* str(key) for a tuple key of two ints: "(a, b)"
TupleStr(key) ==
    <<"(">> \o IntStr(key[1]) \o <<",", " ">> \o IntStr(key[2]) \o <<")">>

\* tuple(s) for a string s: the tuple of its characters
StrTuple(s) == [i \in 1..Len(s) |-> s[i]]

\* list(pattern) as json.dump writes it and json.load reads it: an array
JsonArray(pattern) == [array |-> pattern]
\* tuple(a) for such an array
ArrayTuple(a) == a.array

\* the dict save_rules_to_file hands to json.dump, which json.load returns
SavedData(e) ==
    LET head == "metadata" :> <<>> @@ "rule_type" :> e.rule_type
    IN  IF e.rule_type = "table"
        THEN head @@ "rules" :>
                 {[pattern |-> JsonArray(p), result |-> e.rules[p]] :
                      p \in DOMAIN e.rules}
        ELSE IF e.rule_type = "totalistic"
        THEN head @@ "totalistic" :>
                 [s \in {TupleStr(k) : k \in DOMAIN e.totalistic_rules} |->
                     e.totalistic_rules[
                         CHOOSE k \in DOMAIN e.totalistic_rules :
                             TupleStr(k) = s]]
        ELSE head

\* the engine e after load_rules_from_file of a file holding data
LoadedEngine(e, data) ==
    IF "rules" \in DOMAIN data
    THEN [e EXCEPT !.rules =
                       [p \in {ArrayTuple(r.pattern) : r \in data["rules"]} |->
                           (CHOOSE r \in data["rules"] :
                                ArrayTuple(r.pattern) = p).result],
                   !.rule_type = "table"]
    ELSE IF "totalistic" \in DOMAIN data
    THEN [e EXCEPT !.totalistic_rules =
                       [k \in {StrTuple(s) : s \in DOMAIN data["totalistic"]} |->
                           data["totalistic"][
                               CHOOSE s \in DOMAIN data["totalistic"] :
                                   StrTuple(s) = k]],
                   !.rule_type = "totalistic"]
    ELSE e

\* apply_totalistic_rule(current_state, neighbor_sum) of engine e
apply_totalistic_rule(e, current_state, neighbor_sum) ==
    LET key == <<current_state, neighbor_sum>>
    IN  IF key \in DOMAIN e.totalistic_rules THEN e.totalistic_rules[key]
        ELSE current_state

ruleFrame == <<engVars, generation, variant, rule_number, grid, current_row,
               nsets, fresh, dimVars, storeVars, callerVars, obsVars,
               queryVars, rule_string, rules>>

\* load_rules_from_table(table)
LoadRulesFromTable(table) ==
    /\ rule_engine' = [rule_engine EXCEPT !.rules = table,
                                          !.rule_type = "table"]
    /\ UNCHANGED <<ruleFrame, rule_file, loaded>>

\* the owner of the engine fills in totalistic_rules and sets rule_type
SetTotalisticRules(table) ==
    /\ rule_engine' = [rule_engine EXCEPT !.totalistic_rules = table,
                                          !.rule_type = "totalistic"]
    /\ UNCHANGED <<ruleFrame, rule_file, loaded>>

\* save_rules_to_file(filename)
SaveRulesToFile ==
    /\ rule_file' = [written |-> TRUE, data |-> SavedData(rule_engine)]
    /\ UNCHANGED <<ruleFrame, rule_engine, loaded>>

\* RuleEngine().load_rules_from_file(filename)
LoadRulesFromFile ==
    /\ rule_file.written
    /\ loaded' = [done |-> TRUE,
                  engine |-> LoadedEngine(NewRuleEngine, rule_file.data)]
    /\ UNCHANGED <<ruleFrame, rule_engine, rule_file>>

\* the rule sets of SpecRules: rules for some of three patterns, and for
\* some of three (state, neighbor_sum) keys
RulePatterns == {<<0, 1, 1, 1, 0>>, <<2, 0, 0, 0, 2>>, <<1, 0>>}
TotalisticKeys == {<<0, 3>>, <<1, 2>>, <<1, 3>>}
RuleTables == UNION {[D -> 0..MaxResult] : D \in SUBSET RulePatterns}
TotalisticTables == UNION {[D -> 0..MaxResult] : D \in SUBSET TotalisticKeys}

InitRules ==
    /\ EngineFields
    /\ startCap = 0
    /\ max_generations = 0
    /\ on_error_callback = FALSE
    /\ Constructed("game_of_life", 0)

\* an engine is given its rules, saves them once, and the file is loaded
NextRules ==
    \/ /\ rule_engine = NewRuleEngine /\ ~rule_file.written
       /\ \E t \in RuleTables : LoadRulesFromTable(t)
    \/ /\ rule_engine = NewRuleEngine /\ ~rule_file.written
       /\ \E t \in TotalisticTables : SetTotalisticRules(t)
    \/ ~rule_file.written /\ SaveRulesToFile
    \/ ~loaded.done /\ LoadRulesFromFile

SpecRules == InitRules /\ [][NextRules]_vars
\* ------------------------------------------------------- claims: engine

\* C1: at most one worker thread is inside the run loop at any time
C1_AtMostOneWorkerInLoop ==
    Cardinality({w \in Workers : InLoop(pc[w])}) <= 1

\* C2: with a worker started and any number of external step_once() calls,
\* whenever no step is in progress (the lock is free) generation is its
\* value at start() plus the number of step() calls completed since, by
\* workers and by external step_once() calls together, and total_steps is
\* that number
C2_NoLostOrDuplicatedStep ==
    (thread # 0 /\ LockFree(lock)) =>
        /\ generation = genAtStart + stepsSince
        /\ total_steps = stepsSince

\* C3: at most one thread is inside automaton.step() at any time
C3_StepsNeverOverlap ==
    Cardinality({t \in Threads : pc[t] \in {"in_step", "incr"}}) <= 1

C3_Witness ==
    \E t, u \in Threads :
        /\ t # u
        /\ pc[t] = "in_step"
        /\ pc[u] = "acquire"

C5_StopReleasesPausedWorker ==
    /\ [][\A w \in Workers :
            (stopBlocked[w] /\ stopBlocked'[w]) =>
                /\ pc'[w] \in {"chk", "finally", "complete", "dead"}
                /\ generation' = generation \/ pc'[w] = pc[w]]_vars
    /\ \A w \in Workers :
            stopBlocked[w] ~> ((pc[w] = "dead" /\ ~running) \/ ~stopBlocked[w])

C5_Witness ==
    \E w \in Workers : stopBlocked[w] /\ pc[w] = "dead" /\ ~running

\* C6: a step() that raises in the worker loop invokes the registered error
\* callback exactly once and the worker stays in its loop; with no callback
\* registered the worker leaves the loop, running becomes false, and the
\* error leaves the worker thread
C6_StepFailureRouting ==
    /\ [][\A w \in Workers :
            (pc[w] = "in_step" /\ raises' = raises + 1 /\ pc'[w] # "in_step") =>
                IF on_error_callback
                THEN /\ errCalls' = errCalls + 1
                     /\ pc'[w] = "loop"
                     /\ ~propagated'[w]
                     /\ running' = running
                ELSE /\ errCalls' = errCalls
                     /\ pc'[w] = "finally"
                     /\ propagated'[w]]_vars
    /\ [](on_error_callback => errCalls = raises)
    /\ [](\A w \in Workers :
            propagated[w] =>
                /\ ~on_error_callback
                /\ pc[w] \in {"finally", "complete", "dead"}
                /\ (thread = w /\ pc[w] \in {"complete", "dead"}) => ~running)

C6_Witness ==
    \/ /\ on_error_callback /\ raises = 1 /\ errCalls = 1
       /\ \E w \in Workers : pc[w] = "wait" /\ stepsSince = 0
                             /\ pc[Main] = "idle" /\ thread = 1
    \/ \E w \in Workers : propagated[w] /\ pc[w] = "dead" /\ nComplete[w] = 1

\* C7: the completion callback runs exactly once per finished worker, and
\* running is false when it runs
C7_CompleteOnceRunningFalse ==
    \A w \in Workers :
        /\ nComplete[w] = (IF pc[w] = "dead" THEN 1 ELSE 0)
        /\ ~runAtComplete[w]

C25_PauseHoldsWorker ==
    /\ [](\A w \in Workers : shutSteps[w] <= 1)
    /\ [](pausedRunning => running /\ InLoop(pc[thread]))
    /\ [][\A w \in Workers :
            (pc[w] = "blocked" /\ pc'[w] # "blocked") => pause_event']_vars

\* C26: with max_generations = N >= 1 configured before start() and no
\* external step_once(), the worker completes no more than N steps, never
\* goes for a step or begins one while total_steps >= N, leaves its loop on
\* its own only after exactly N steps, and running is false once it is gone
C26_CutoffAfterNSteps ==
    /\ [](stepsSince <= max_generations)
    /\ [](\A w \in Workers : pc[w] = "dead" => ~running)
    /\ [][\A w \in Workers :
            /\ (pc[w] # pc'[w] /\ pc'[w] \in {"acquire", "in_step"}) =>
                    total_steps < max_generations
            /\ (pc[w] = "chk" /\ pc'[w] = "finally" /\ ~stop_event) =>
                    total_steps = max_generations
                    /\ stepsSince = max_generations]_vars

\* the worker has left on its own after N steps, nobody having stopped it
C26_Witness ==
    /\ pc[thread] = "dead" /\ ~running
    /\ ~stop_event /\ ~propagated[thread]
    /\ max_generations >= 1
    /\ stepsSince = max_generations /\ total_steps = max_generations

\* C27: no step() completes on an automaton that is no longer bound, every
\* step in progress runs on the bound automaton, and the binding changes
\* only while no step is in progress, so that a step under way when
\* set_automaton is called finishes on the old automaton first
C27_StepsOnBoundAutomaton ==
    /\ [](staleSteps = 0)
    /\ [](\A t \in Threads : target[t] \in {0, automaton})
    /\ [][automaton' # automaton => \A t \in Threads : target[t] = 0]_vars

\* set_automaton was called during a step, the rebinding has taken effect
\* and a step has since completed on the new automaton
C27_Witness ==
    /\ bindWaited
    /\ automaton = 2
    /\ pc[Main] = "idle"
    /\ generation >= 1
    /\ staleSteps = 0

\* C28: once stop() has set the stop event while a worker is in its loop,
\* that worker eventually leaves the loop, whatever pause() and resume()
\* calls follow
C28_StopEndsWorker ==
    \A w \in Workers : (stop_event /\ InLoop(pc[w])) ~> ~InLoop(pc[w])

\* C9: for every variant, two instances of the same variant and parameters
\* that hold equal grids hold equal grids after each performs one step();
\* in particular an instance that has run k steps and a fresh instance into
\* which its exported grid was imported agree after one further step.
C9_StepIsFunctionOfGrid ==
    fresh.grid = grid =>
        StepGrid(variant, rule_number, fresh.grid, fresh.current_row)
            = StepGrid(variant, rule_number, grid, current_row)

\* C10: in every table-based variant, a cell whose (center, north, east,
\* south, west) pattern is absent from the rule table has the same state
\* after step() as before.
C10_AbsentPatternIsNoOp ==
    variant \in TableVariants =>
        \A y \in Rows, x \in Cols :
            TableRule(variant, Pattern(grid, x, y)) = NoRule =>
                StepGrid(variant, rule_number, grid, current_row)[y][x]
                    = grid[y][x]

\* the column left and right of x on the torus
LeftOf(x) == IF x = 0 THEN width - 1 ELSE x - 1
RightOf(x) == IF x = width - 1 THEN 0 ELSE x + 1

\* C11: for an ElementaryCA of height H, the step() call that follows k
\* earlier ones since initialize_pattern writes, for k < H-1, exactly row
\* k+1, each cell from the rule table entry of the three cells of row k
\* around it with the columns wrapping, leaves every other row as it was
\* and adds 1 to generation; for k >= H-1 it changes neither grid nor
\* generation.
C11_StepWritesNextRow ==
    [][(variant = "elementary" /\ nsteps' = nsteps + 1) =>
          IF sinceInit < height - 1
          THEN /\ \A x \in Cols :
                    grid'[sinceInit + 1][x]
                        = rule_table(rule_number, grid[sinceInit][LeftOf(x)],
                                     grid[sinceInit][x],
                                     grid[sinceInit][RightOf(x)])
               /\ \A y \in Rows \ {sinceInit + 1} : grid'[y] = grid[y]
               /\ generation' = generation + 1
          ELSE grid' = grid /\ generation' = generation]_vars

\* every row was written and one more step() was called
C11_Witness ==
    /\ variant = "elementary"
    /\ sinceInit > height - 1
    /\ generation = height - 1
    /\ \E x \in Cols : grid[height - 1][x] = 1

\* the binomial coefficient, 0 outside 0..n
RECURSIVE Binomial(_, _)
Binomial(n, k) ==
    IF k < 0 \/ k > n THEN 0
    ELSE IF k = 0 \/ k = n THEN 1
    ELSE Binomial(n - 1, k - 1) + Binomial(n - 1, k)

\* the column _create_single_cell seeds
SeedColumn == width \div 2
\* rows step() has written since the seed was placed
RowsWritten == 0..Min(sinceInit, height - 1)
\* row r of the seed's pattern fits between the edges
NotWrapped(r) == SeedColumn - r >= 0 /\ SeedColumn + r <= width - 1

\* C12, with the parity taken at the middle index: for rule 90 started from
\* a single seed at column center of row 0, after r steps (the pattern not
\* yet wrapped) cell (r, c) is alive iff r + (c - center) is even and the
\* binomial coefficient C(r, (r + c - center) / 2) is odd.
C12_Rule90MiddleBinomialParity ==
    (variant = "elementary" /\ rule_number = 90 /\ pristine) =>
        \A r \in RowsWritten : NotWrapped(r) =>
            \A c \in Cols :
                grid[r][c] = 1 <=>
                    /\ (r + c - SeedColumn) % 2 = 0
                    /\ Binomial(r, (r + c - SeedColumn) \div 2) % 2 = 1

\* two steps after the seed: alive two columns to each side, dead between
C12_Witness ==
    /\ variant = "elementary" /\ rule_number = 90 /\ pristine
    /\ sinceInit = 2 /\ NotWrapped(2)
    /\ grid[2][SeedColumn - 2] = 1 /\ grid[2][SeedColumn + 2] = 1
    /\ grid[2][SeedColumn] = 0

\* C12: for rule 90 started from a single seed at column center of row 0,
\* after r steps (the pattern not yet wrapped) cell (r, c) is alive iff the
\* binomial coefficient C(r, c - center) is odd.
C12_Rule90BinomialParity ==
    (variant = "elementary" /\ rule_number = 90 /\ pristine) =>
        \A r \in RowsWritten : NotWrapped(r) =>
            \A c \in Cols :
                grid[r][c] = 1 <=> Binomial(r, c - SeedColumn) % 2 = 1

\* live cells among the eight neighbours of (x, y) on the torus
LiveNeighbours(g, x, y) ==
    Cardinality({d \in MooreOffsets : Cell(g, x + d[1], y + d[2]) = 1})

\* C13: GameOfLife.step() leaves a cell alive iff, in the grid before the
\* step, it was alive with 2 or 3 live Moore neighbours on the torus or
\* dead with exactly 3; so a vertical 3-cell blinker alone on a grid of at
\* least 5x5 becomes the horizontal 3-cell line through the same centre,
\* and that line becomes the vertical blinker again.
C13_LifeStepIsB3S23 ==
    [][(variant = "game_of_life" /\ nsteps' = nsteps + 1) =>
          /\ \A y \in Rows, x \in Cols :
                /\ grid'[y][x] \in {0, 1}
                /\ grid'[y][x] = 1 <=>
                      \/ grid[y][x] = 1 /\ LiveNeighbours(grid, x, y) \in {2, 3}
                      \/ grid[y][x] = 0 /\ LiveNeighbours(grid, x, y) = 3
          /\ \A cy \in Rows, cx \in Cols :
                /\ grid = VerticalBlinker(cx, cy)
                      => grid' = HorizontalBlinker(cx, cy)
                /\ grid = HorizontalBlinker(cx, cy)
                      => grid' = VerticalBlinker(cx, cy)]_vars

\* the imported vertical blinker is back after two steps
C13_Witness ==
    /\ variant = "game_of_life"
    /\ nsteps = 2
    /\ width >= 5 /\ height >= 5
    /\ \E cy \in Rows, cx \in Cols : ext.cells = VerticalBlinker(cx, cy)
    /\ grid = ext.cells

\* C14: parse_totalistic_rule("B3/S23") returns a table defined for every
\* state in {0,1} and every neighbor_sum in 0..8, which maps (0,n) to 1 iff
\* n = 3 and (1,n) to 1 iff n is 2 or 3; for every such pair the table's
\* entry is the next state GameOfLife.step() gives a cell in that state
\* with that many live Moore neighbours.
C14_TotalisticTableIsLife ==
    (/\ rules.returned
     /\ rule_string = <<"B", "3", "/", "S", "2", "3">>
     /\ rules.num_states = 2) =>
        /\ DOMAIN rules.table = (0..1) \X (0..8)
        /\ \A n \in 0..8 :
              /\ rules.table[<<0, n>>] = (IF n = 3 THEN 1 ELSE 0)
              /\ rules.table[<<1, n>>] = (IF n \in {2, 3} THEN 1 ELSE 0)
        /\ \A s \in 0..1, n \in 0..8 : rules.table[<<s, n>>] = LifeCell(s, n)

\* "B3/S23" was parsed with the default num_states
C14_Witness ==
    /\ rules.returned
    /\ rule_string = <<"B", "3", "/", "S", "2", "3">>
    /\ rules.num_states = 2
    /\ rules.table[<<0, 3>>] = 1

\* C15: one WireWorld step() maps every cell from the grid before the step:
\* empty stays empty, an electron head becomes a tail, a tail becomes wire,
\* and a wire becomes a head iff exactly 1 or 2 of its 8 Moore neighbours
\* on the torus are heads, and stays wire otherwise.
C15_WireWorldStepMapping ==
    [][(variant = "wireworld" /\ nsteps' = nsteps + 1) =>
          \A y \in Rows, x \in Cols :
              LET heads == Cardinality({d \in MooreOffsets :
                              grid[(y + d[2]) % height][(x + d[1]) % width]
                                  = HeadCell})
              IN  /\ grid[y][x] = EmptyCell => grid'[y][x] = EmptyCell
                  /\ grid[y][x] = HeadCell => grid'[y][x] = TailCell
                  /\ grid[y][x] = TailCell => grid'[y][x] = WireCell
                  /\ grid[y][x] = WireCell =>
                        grid'[y][x] = (IF heads \in {1, 2} THEN HeadCell
                                       ELSE WireCell)]_vars

\* a wire with three heads next to it stayed wire, another wire fired
C15_Witness ==
    /\ variant = "wireworld"
    /\ nsteps = 1
    /\ ext # NoArray
    /\ ext.cells[0][0] = WireCell /\ grid[0][0] = WireCell
    /\ HeadCount(ext.cells, 0, 0) = 3
    /\ \E y \in Rows, x \in Cols :
          /\ ext.cells[y][x] = WireCell /\ grid[y][x] = HeadCell
          /\ HeadCount(ext.cells, x, y) \in {1, 2}

\* the states metadata.num_states allows
ValidStates == 0..(NumStates(variant) - 1)

\* C16: for every variant, after any sequence of initialize_pattern,
\* set_cell, step, import_grid and reset calls, every cell of the grid
\* holds a value in [0, num_states).
C16_CellsInRange ==
    \A y \in Rows, x \in Cols : grid[y][x] \in ValidStates

\* C17: from any reachable state of any automaton, import_grid(export_grid())
\* returns with the grid equal cell for cell to the grid before the call
\* and with generation unchanged.
C17_ExportImportRoundTrip ==
    [][last' = "round_trip" =>
          /\ ~raised'
          /\ \A y \in Rows, x \in Cols : grid'[y][x] = grid[y][x]
          /\ generation' = generation]_vars

\* a round trip was made on a grid that had been stepped and is not zero
C17_Witness ==
    /\ last = "round_trip"
    /\ generation > 0
    /\ grid # ZeroGrid
    /\ width # height

\* C18: import_grid(g) with g of other dimensions than (height, width)
\* raises an error to the caller and leaves grid, generation, history and
\* statistics as they were; with matching dimensions the grid becomes a
\* copy of g and generation is unchanged, and what the caller writes to g
\* afterwards does not reach the grid.
C18_ImportGridShapeAndCopy ==
    /\ [][last' = "import_grid" =>
            IF ext'.shape # <<height, width>>
            THEN /\ raised'
                 /\ grid' = grid
                 /\ generation' = generation
                 /\ history' = history
                 /\ statistics' = statistics
            ELSE /\ ~raised'
                 /\ grid' = ext'.cells
                 /\ generation' = generation]_vars
    /\ [][(ext # NoArray /\ ext' # ext) => grid' = grid]_vars

\* an array of the transposed shape was refused by an automaton that had
\* stepped and holds a snapshot
C18_Witness ==
    /\ last = "import_grid"
    /\ raised
    /\ ext.shape = <<width, height>>
    /\ width # height
    /\ generation > 0
    /\ history # <<>>
    /\ grid # ZeroGrid

\* the cells in which two grids differ
Changed(g1, g2) == {p \in Cols \X Rows : g1[p[2]][p[1]] # g2[p[2]][p[1]]}

\* C19: set_cell(x, y, s) with x outside [0,width), y outside [0,height) or
\* s outside [0,num_states) raises nothing and leaves the whole grid as it
\* was; with all three in range it sets cell (x,y) to s and changes no
\* other cell; either way generation is unchanged.
C19_SetCellGuardAndFrame ==
    /\ [](\A x \in (-1)..width, y \in (-1)..height,
             s \in (-1)..NumStates(variant) :
             LET after == SetCellGrid(grid, x, y, s)
             IN  IF x \in Cols /\ y \in Rows /\ s \in ValidStates
                 THEN /\ after[y][x] = s
                      /\ Changed(grid, after) \subseteq {<<x, y>>}
                 ELSE after = grid)
    /\ [][nsets' = nsets + 1 =>
            /\ ~raised'
            /\ generation' = generation
            /\ Cardinality(Changed(grid, grid')) <= 1
            /\ \A p \in Changed(grid, grid') : grid'[p[2]][p[1]] \in ValidStates]_vars

\* a set_cell call wrote the one live cell of the grid, after a step
C19_Witness ==
    /\ nsets > 0
    /\ generation > 0
    /\ grid = [ZeroGrid EXCEPT ![0][0] = 1]

\* C20: after reset(), from any reachable state of any variant, every cell
\* is 0, generation is 0, the snapshot history is empty and the statistics
\* store is empty, and width, height and metadata are what they were.
C20_ResetClears ==
    [][last' = "reset" =>
          /\ DOMAIN grid' = Rows
          /\ \A y \in Rows : DOMAIN grid'[y] = Cols
          /\ \A y \in Rows, x \in Cols : grid'[y][x] = 0
          /\ generation' = 0
          /\ history' = <<>>
          /\ statistics' = <<>>
          /\ width' = width /\ height' = height
          /\ variant' = variant /\ rule_number' = rule_number]_vars

\* reset() was called after a step and a set_cell call
C20_Witness ==
    /\ last = "reset"
    /\ nsteps > 0 /\ nsets > 0
    /\ generation = 0
    /\ grid = ZeroGrid

\* C21: a statistics record stored for generation g is never changed
\* afterwards: whatever call comes next, as long as the store still holds a
\* record for g it is the record first created for g
C21_StatisticsNeverMutated ==
    [][\A g \in DOMAIN statistics :
          g \in DOMAIN statistics' => statistics'[g] = statistics[g]]_vars

\* the row above and the row below row y on the torus
Above(y) == IF y = 0 THEN height - 1 ELSE y - 1
Below(y) == IF y = height - 1 THEN 0 ELSE y + 1
\* row y moved by dy and column x moved by dx, for dy and dx in -1..1
RowAt(y, dy) == CASE dy = -1 -> Above(y) [] dy = 0 -> y [] dy = 1 -> Below(y)
ColAt(x, dx) == CASE dx = -1 -> LeftOf(x) [] dx = 0 -> x [] dx = 1 -> RightOf(x)

\* C22: get_neighborhood(x, y) under von Neumann returns the cell itself as
\* center and its four torus neighbours as north, south, east and west, and
\* under Moore the 3x3 block whose entry [dy+1][dx+1] is the cell at
\* ((x+dx) mod W, (y+dy) mod H); at x = 0 the west value is the cell at
\* (W-1, y), and likewise on every edge and corner
C22_NeighborhoodWraps ==
    last = "get_neighborhood" /\ ~raised =>
        LET x == query.x
            y == query.y
        IN  IF query.type = "von_neumann"
            THEN /\ neighborhood =
                        [center |-> grid[y][x],
                         north |-> grid[Above(y)][x],
                         south |-> grid[Below(y)][x],
                         east |-> grid[y][RightOf(x)],
                         west |-> grid[y][LeftOf(x)]]
                 /\ x = 0 => neighborhood.west = grid[y][width - 1]
                 /\ x = width - 1 => neighborhood.east = grid[y][0]
                 /\ y = 0 => neighborhood.north = grid[height - 1][x]
                 /\ y = height - 1 => neighborhood.south = grid[0][x]
            ELSE /\ DOMAIN neighborhood = 0..2
                 /\ \A dy \in -1..1, dx \in -1..1 :
                       neighborhood[dy + 1][dx + 1] =
                           grid[RowAt(y, dy)][ColAt(x, dx)]

\* the Moore neighbourhood of corner (0, 0) was read while the one marked
\* cell sat in the opposite corner
C22_Witness ==
    /\ last = "get_neighborhood" /\ ~raised
    /\ query = [x |-> 0, y |-> 0, type |-> "moore"]
    /\ grid[height - 1][width - 1] = 1
    /\ neighborhood[0][0] = 1
    /\ neighborhood[1][1] = 0

\* s is of the form B<digits>/S<digits> and nothing else
RequiredBSForm(s) ==
    \E n1 \in 1..Len(s), n2 \in 1..Len(s) :
        /\ Len(s) = n1 + n2 + 3
        /\ s[1] = "B"
        /\ \A i \in 2..(n1 + 1) : s[i] \in Digits
        /\ s[n1 + 2] = "/" /\ s[n1 + 3] = "S"
        /\ \A i \in (n1 + 4)..Len(s) : s[i] \in Digits

\* C23: a RuleParser entry point raises an error for every string that is
\* not of the required form: a call that returned a rule set was handed a
\* string of the form B<digits>/S<digits>
C23_MalformedRuleRejected ==
    rules.returned => RequiredBSForm(rule_string)

C29_CurrentRowIsGeneration ==
    variant = "elementary" => current_row = generation

\* C30: save_rules_to_file followed by load_rules_from_file of the same
\* file into a fresh RuleEngine restores the same rule_type and the same
\* rule mapping, for a table rule set and for a totalistic rule set
C30_SaveLoadRoundTrip ==
    loaded.done =>
        /\ loaded.engine.rule_type = rule_engine.rule_type
        /\ rule_engine.rule_type = "table" =>
              loaded.engine.rules = rule_engine.rules
        /\ rule_engine.rule_type = "totalistic" =>
              /\ loaded.engine.totalistic_rules = rule_engine.totalistic_rules
              /\ \A s \in 0..1, n \in 0..8 :
                    apply_totalistic_rule(loaded.engine, s, n) =
                        apply_totalistic_rule(rule_engine, s, n)
====
